---- MODULE Spec2Model ----
(***************************************************************************)
(* A model of the mtaalink marketplace backend (axum handlers over a       *)
(* PostgreSQL store).  The store's tables are sets of rows; every handler  *)
(* is one action that runs the handler's statements in source order.       *)
(* A statement of the store may fail (sqlx returns Err): each handler      *)
(* takes an input err naming the statement that fails, or "none".          *)
(*                                                                         *)
(* Specifications:                                                         *)
(*   Spec      bookings, requests handled one after another                *)
(*   SpecConc  create_booking requests interleaved at their await points   *)
(*   SpecAuth  register and the onboarding handlers                        *)
(*   SpecReview  send_message and create_reviews                           *)
(*   SpecAgg     get_review_agg_by_id over stored reviews                  *)
(*   SpecFav     add_favorite and remove_favorite                          *)
(*   SpecMsg     send_message, mark_messages_as_read and the unread count  *)
(*   SpecAdmin   the admin routes behind require_admin                     *)
(*   SpecSvc     create_service, edit_service and delete_service           *)
(*   SpecDur     create_booking while edit_service changes durations       *)
(*   SpecAvail   the single and the bulk availability update               *)
(*   SpecTx      the four transactional handlers                           *)
(*   SpecReset   forgot_password and reset_password                        *)
(*   SpecRevConc create_reviews requests interleaved at their await points *)
(***************************************************************************)
EXTENDS Integers, FiniteSets, Sequences, TLC

VARIABLES
    users,          \* table users: rows [id, username, email]
    clients,        \* table clients: rows [id, user_id, data]
    providers,      \* table providers: rows [id, user_id, data]
    businesses,     \* table businesses: rows [id, user_id, data]
    services,       \* table services: rows [id, target_type, target_id, duration]
    bookings,       \* table bookings
    nextBookingId,  \* the serial sequence behind bookings.id
    now,            \* the wall clock (chrono::Local::now)
    resp,           \* the last response sent: [op, status]
    reqs,           \* create_booking requests in flight (SpecConc)
    messages,       \* table messages
    interactions,   \* table interactions
    reviews,        \* table reviews
    favorites,      \* table favorites, unique on (user_id, target_type, target_id)
    admins,         \* table admins: rows [id, is_super_admin]
    categories,     \* table categories: rows [id, name, parent_id]
    nextCategoryId, \* the serial sequence behind categories.id
    nextServiceId,  \* the serial sequence behind services.id
    availability,   \* table provider_availability: rows [id, provider_id, day, is_available, start_time, end_time]
    posts,          \* table posts: rows [id, title, content]
    attachments,    \* table attachments: rows [id, post_id, file_path]
    password_resets, \* table password_resets: rows [user_id, token, expires_at]
    passwords,      \* column users.password: rows [user_id, password]
    nextToken       \* the reset tokens issued so far, plus one

\* the tables the booking and registration handlers never touch
\* the tables of the availability, post and password-reset handlers
newVars == <<availability, posts, attachments, password_resets, passwords, nextToken>>
extVars == <<messages, interactions, reviews, favorites, admins, categories, nextCategoryId, nextServiceId, newVars>>

vars == <<users, clients, providers, businesses, services, bookings,
          nextBookingId, now, resp, reqs, extVars>>

----------------------------------------------------------------------------
(* Bounds of the model *)

\* bookings.id never exceeds this: at most MaxBookings inserts into bookings
MaxBookings == 2
\* the clock and every scheduled_time range over 0..MaxTime
MaxTime == 1
\* at most MaxRequests create_booking requests are handled in SpecConc
MaxRequests == 2
\* usernames and emails are the tokens 0..MaxNames (SpecAuth)
MaxNames == 2

----------------------------------------------------------------------------
(* Values *)

\* Option<T>: None is the empty set, Some(x) the singleton
None == {}
Some(x) == {x}

\* service.duration.unwrap_or(60) and the two other defaults of create_booking
DefaultDuration == 60

\* str::to_lowercase on the strings the inputs are drawn from
ToLowercase(s) ==
    CASE s = "Provider"  -> "provider"
      [] s = "BUSINESS"  -> "business"
      [] s = "Completed" -> "completed"
      [] OTHER           -> s

\* Unwrap of an Option with a default: Option::unwrap_or
UnwrapOr(opt, d) == IF opt = None THEN d ELSE CHOOSE x \in opt : TRUE

\* (target_type, target_id) as requests give them: the two rows of InitBook,
\* a capitalised type, an unknown type, a non-positive id, a missing row
TargetInputs == {<<"provider", 1>>, <<"business", 1>>, <<"Provider", 1>>,
                 <<"shop", 1>>, <<"provider", 0>>, <<"business", 2>>}
\* the two targets that exist in InitBook
StoredTargets == {<<"provider", 1>>, <<"business", 1>>}
StatusInputs == {"pending", "confirmed", "Completed"}
\* the callers of Spec: the users of InitBook (CurrentUser.user_id)
Callers == {1, 2}
BookingIdInputs == 0..MaxBookings
\* no service, the service of provider 1, a service that does not exist
ServiceIdInputs == {None, Some(1), Some(2)}
TimeInputs == 0..MaxTime

\* the create_booking requests of SpecConc
Procs == 1..MaxRequests

Response(op, status) == [op |-> op, status |-> status]

\* the tables of extVars before any request
\* no availability, post or reset token yet; every stored user has the
\* password of its registration
InitNew ==
    /\ availability = {}
    /\ posts = {}
    /\ attachments = {}
    /\ password_resets = {}
    /\ passwords = {[user_id |-> u.id, password |-> <<"argon2", "registered">>] : u \in users}
    /\ nextToken = 1

InitExt ==
    /\ messages = {}
    /\ interactions = {}
    /\ reviews = {}
    /\ favorites = {}
    /\ admins = {}
    /\ categories = {}
    /\ nextCategoryId = 1
    /\ nextServiceId = Cardinality(services) + 1
    /\ InitNew

----------------------------------------------------------------------------
(* Statements of the booking handlers *)

\* SELECT duration FROM services WHERE id = $1, then unwrap_or(60); a failed
\* query and a missing row give the default too
ServiceDuration(service_id, err) ==
    IF service_id = None \/ err = "duration" THEN DefaultDuration
    ELSE LET rows == {s \in services : Some(s.id) = service_id}
         IN IF rows = {} THEN DefaultDuration
            ELSE UnwrapOr((CHOOSE s \in rows : TRUE).duration, DefaultDuration)

\* SELECT id FROM businesses|providers WHERE id = $1
TargetExists(target_type, target_id) ==
    CASE target_type = "business" -> \E b \in businesses : b.id = target_id
      [] target_type = "provider" -> \E p \in providers : p.id = target_id
      [] OTHER -> FALSE

\* SELECT id FROM bookings WHERE target_type = $1 AND target_id = $2
\*   AND scheduled_time = $3
ExistingBooking(bk, target_type, target_id, scheduled_time) ==
    {b \in bk : /\ b.target_type = target_type
                /\ b.target_id = target_id
                /\ b.scheduled_time = scheduled_time}

\* SELECT id FROM services WHERE id = $1 AND target_type = $2 AND target_id = $3
ServiceExists(service_id, target_type, target_id) ==
    \E s \in services : /\ Some(s.id) = service_id
                        /\ s.target_type = target_type
                        /\ s.target_id = target_id

\* The insert as it would be under a unique index on the slot: a variant the
\* source does not have, which C2 tells apart from the source's insert
InsertBooking_UniqueSlot(bk, id, client_id, target_type, target_id, service_id, scheduled_time, duration) ==
    IF ExistingBooking(bk, target_type, target_id, scheduled_time) # {}
       THEN bk
       ELSE bk \cup {[id |-> id, client_id |-> client_id,
                      target_type |-> target_type, target_id |-> target_id,
                      service_id |-> service_id,
                      scheduled_time |-> scheduled_time,
                      duration |-> duration, status |-> "pending"]}

\* INSERT INTO bookings (...) VALUES (...) RETURNING id, with status 'pending'
InsertBooking(bk, id, client_id, target_type, target_id, service_id, scheduled_time, duration) ==
    bk \cup {[id |-> id, client_id |-> client_id, target_type |-> target_type,
              target_id |-> target_id, service_id |-> service_id,
              scheduled_time |-> scheduled_time, duration |-> duration,
              status |-> "pending"]}

\* SELECT id FROM businesses|providers WHERE id = $1 AND user_id = $2
IsOwner(target_type, target_id, user_id) ==
    CASE target_type = "business" ->
            \E b \in businesses : b.id = target_id /\ b.user_id = user_id
      [] target_type = "provider" ->
            \E p \in providers : p.id = target_id /\ p.user_id = user_id
      [] OTHER -> FALSE

\* UPDATE bookings SET status = $1 WHERE id = $2 AND target_type = $3
\*   AND target_id = $4
UpdateStatus(bk, status, id, target_type, target_id) ==
    {IF b.id = id /\ b.target_type = target_type /\ b.target_id = target_id
        THEN [b EXCEPT !.status = status] ELSE b : b \in bk}

\* DELETE FROM bookings WHERE id = $1
DeleteRow(bk, id) == {b \in bk : b.id # id}

\* The update without its client_id condition: a variant the source does not
\* have, which C6 tells apart from the source's update
UpdateScheduledTime_AnyClient(bk, scheduled_time, id, user_id) ==
    {IF b.id = id
        THEN [b EXCEPT !.scheduled_time = scheduled_time] ELSE b : b \in bk}

\* UPDATE bookings SET scheduled_time = $1 WHERE id = $2 AND client_id = $3
UpdateScheduledTime(bk, scheduled_time, id, user_id) ==
    {IF b.id = id /\ b.client_id = user_id
        THEN [b EXCEPT !.scheduled_time = scheduled_time] ELSE b : b \in bk}

----------------------------------------------------------------------------
(* The booking handlers, one request handled at a time *)

\* The early answers without the past-time check: a variant the source does
\* not have, which C4 tells apart from the source's checks
CreateBookingEarly_NoPastCheck(target_type, target_id, scheduled_time, err) ==
    IF target_type # "business" /\ target_type # "provider" THEN 400
    ELSE IF target_id <= 0 THEN 400
    ELSE IF err = "target" THEN 500
    ELSE IF ~TargetExists(target_type, target_id) THEN 400
    ELSE 0

\* What create_booking answers before it reaches its slot query: 0 when the
\* request goes on
CreateBookingEarly(target_type, target_id, scheduled_time, err) ==
    IF target_type # "business" /\ target_type # "provider" THEN 400
    ELSE IF target_id <= 0 THEN 400
    ELSE IF err = "target" THEN 500
    ELSE IF ~TargetExists(target_type, target_id) THEN 400
    ELSE IF scheduled_time < now THEN 400
    ELSE 0

\* What create_booking answers at its slot query: 0 when the slot is free
CreateBookingSlot(bk, target_type, target_id, scheduled_time, err) ==
    IF err = "slot" THEN 500
    ELSE IF ExistingBooking(bk, target_type, target_id, scheduled_time) # {}
         THEN 400
    ELSE 0

\* What create_booking answers at its service query: 0 when the request goes on
CreateBookingService(service_id, target_type, target_id, err) ==
    IF service_id = None THEN 0
    ELSE IF err = "service" THEN 500
    ELSE IF ~ServiceExists(service_id, target_type, target_id) THEN 400
    ELSE 0

\* What a handler does to the store and what it answers
Outcome(status, bk) == [status |-> status, bookings |-> bk]

CreateErrors == {"target", "slot", "service", "insert"}

\* create_booking as a function of the store and the request
CreateBooking(user_id, raw_target_type, target_id, service_id, scheduled_time, err) ==
    LET target_type == ToLowercase(raw_target_type)
        duration == ServiceDuration(service_id, err)
        early == CreateBookingEarly(target_type, target_id, scheduled_time, err)
        slot == CreateBookingSlot(bookings, target_type, target_id,
                                  scheduled_time, err)
        service == CreateBookingService(service_id, target_type, target_id, err)
    IN IF early # 0 THEN Outcome(early, bookings)
       ELSE IF slot # 0 THEN Outcome(slot, bookings)
       ELSE IF service # 0 THEN Outcome(service, bookings)
       ELSE IF err = "insert" THEN Outcome(500, bookings)
       ELSE Outcome(201, InsertBooking(bookings, nextBookingId, user_id,
                                       target_type, target_id, service_id,
                                       scheduled_time, duration))

create_booking(user_id, raw_target_type, target_id, service_id, scheduled_time, err) ==
    LET o == CreateBooking(user_id, raw_target_type, target_id, service_id,
                           scheduled_time, err)
    IN /\ nextBookingId <= MaxBookings
       /\ resp' = Response("create_booking", o.status)
       /\ bookings' = o.bookings
       /\ nextBookingId' = IF o.status = 201 THEN nextBookingId + 1
                           ELSE nextBookingId
       /\ UNCHANGED <<extVars, users, clients, providers, businesses, services, now, reqs>>

UpdateErrors == {"owner", "update"}

\* update_booking without its ownership query: a variant the source does not
\* have, which C5 tells apart from the source's handler
UpdateBooking_NoOwnerCheck(id, raw_target_type, target_id, user_id, raw_status, err) ==
    LET target_type == ToLowercase(raw_target_type)
        status == ToLowercase(raw_status)
    IN IF target_type \notin {"provider", "business"}
          THEN Outcome(400, bookings)
       ELSE IF target_id <= 0 \/ id <= 0 THEN Outcome(400, bookings)
       ELSE IF err = "update" THEN Outcome(500, bookings)
       ELSE Outcome(200, UpdateStatus(bookings, status, id, target_type,
                                      target_id))

\* update_booking as a function of the store and the request
UpdateBooking(id, raw_target_type, target_id, user_id, raw_status, err) ==
    LET target_type == ToLowercase(raw_target_type)
        status == ToLowercase(raw_status)
    IN IF target_type \notin {"provider", "business"}
          THEN Outcome(400, bookings)
       ELSE IF target_id <= 0 \/ id <= 0 THEN Outcome(400, bookings)
       ELSE IF err = "owner" THEN Outcome(500, bookings)
       ELSE IF ~IsOwner(target_type, target_id, user_id)
          THEN Outcome(403, bookings)
       ELSE IF err = "update" THEN Outcome(500, bookings)
       ELSE Outcome(200, UpdateStatus(bookings, status, id, target_type,
                                      target_id))

update_booking(id, raw_target_type, target_id, user_id, raw_status, err) ==
    LET o == UpdateBooking(id, raw_target_type, target_id, user_id,
                           raw_status, err)
    IN /\ resp' = Response("update_booking", o.status)
       /\ bookings' = o.bookings
       /\ UNCHANGED <<extVars, users, clients, providers, businesses, services,
                      nextBookingId, now, reqs>>

DeleteErrors == {"fetch", "delete"}

\* delete_booking as a function of the store and the request; fetch_one
\* answers Err when no row has the id
DeleteBooking(id, user_id, err) ==
    LET rows == {b \in bookings : b.id = id}
    IN IF id <= 0 THEN Outcome(400, bookings)
       ELSE IF err = "fetch" \/ rows = {} THEN Outcome(500, bookings)
       ELSE IF (CHOOSE b \in rows : TRUE).client_id # user_id
          THEN Outcome(403, bookings)
       ELSE IF err = "delete" THEN Outcome(500, bookings)
       ELSE Outcome(200, DeleteRow(bookings, id))

delete_booking(id, user_id, err) ==
    LET o == DeleteBooking(id, user_id, err)
    IN /\ resp' = Response("delete_booking", o.status)
       /\ bookings' = o.bookings
       /\ UNCHANGED <<extVars, users, clients, providers, businesses, services,
                      nextBookingId, now, reqs>>

RescheduleErrors == {"update"}

\* reschedule_booking as a function of the store and the request
RescheduleBooking(id, user_id, new_scheduled_time, err) ==
    IF id <= 0 THEN Outcome(400, bookings)
    ELSE IF new_scheduled_time < now THEN Outcome(400, bookings)
    ELSE IF err = "update" THEN Outcome(500, bookings)
    ELSE Outcome(200, UpdateScheduledTime(bookings, new_scheduled_time, id,
                                          user_id))

reschedule_booking(id, user_id, new_scheduled_time, err) ==
    LET o == RescheduleBooking(id, user_id, new_scheduled_time, err)
    IN /\ resp' = Response("reschedule_booking", o.status)
       /\ bookings' = o.bookings
       /\ UNCHANGED <<extVars, users, clients, providers, businesses, services,
                      nextBookingId, now, reqs>>

\* The wall clock advances between requests
Tick ==
    /\ now < MaxTime
    /\ now' = now + 1
    /\ UNCHANGED <<extVars, users, clients, providers, businesses, services, bookings,
                   nextBookingId, resp, reqs>>

----------------------------------------------------------------------------
(* Spec: the booking handlers over a store that holds two registered       *)
(* users, user 1 with provider row 1 and user 2 with business row 1, as    *)
(* two register requests leave it, and one catalogue service of provider   *)
(* 1.  create_booking checks no role, so both users also book as clients.  *)


InitBook ==
    /\ users = {[id |-> 1, username |-> "u1", email |-> "e1"],
                [id |-> 2, username |-> "u2", email |-> "e2"]}
    /\ providers = {[id |-> 1, user_id |-> 1, data |-> "registered"]}
    /\ businesses = {[id |-> 1, user_id |-> 2, data |-> "registered"]}
    /\ clients = {}
    /\ services = {[id |-> 1, target_type |-> "provider", target_id |-> 1,
                    duration |-> Some(30)]}
    /\ bookings = {}
    /\ nextBookingId = 1
    /\ now = 0
    /\ resp = Response("none", 0)
    /\ reqs = [p \in Procs |-> [pc |-> "idle"]]
    /\ InitExt

\* The requests of Spec: every combination of the inputs with a store that
\* answers, and a failing statement for the requests that name a stored target
CreateRequests ==
    (Callers \X TargetInputs \X ServiceIdInputs \X TimeInputs \X {"none"})
    \cup (Callers \X StoredTargets \X ServiceIdInputs \X TimeInputs
             \X CreateErrors)

UpdateRequests ==
    (BookingIdInputs \X TargetInputs \X Callers \X StatusInputs \X {"none"})
    \cup (BookingIdInputs \X StoredTargets \X Callers \X StatusInputs
             \X UpdateErrors)

NextBook ==
    \/ \E r \in CreateRequests :
          create_booking(r[1], r[2][1], r[2][2], r[3], r[4], r[5])
    \/ \E r \in UpdateRequests :
          update_booking(r[1], r[2][1], r[2][2], r[3], r[4], r[5])
    \/ \E id \in BookingIdInputs, u \in Callers,
          err \in {"none"} \cup DeleteErrors :
          delete_booking(id, u, err)
    \/ \E id \in BookingIdInputs, u \in Callers, t \in TimeInputs,
          err \in {"none"} \cup RescheduleErrors :
          reschedule_booking(id, u, t, err)
    \/ Tick

Spec == InitBook /\ [][NextBook]_vars

----------------------------------------------------------------------------
(* SpecConc: create_booking requests handled concurrently.  The handler    *)
(* awaits each statement, and the runtime may run another request's        *)
(* statements in between: one action per statement from the slot query on. *)
(* The statements before it read tables that no booking handler writes.    *)


\* the requests of SpecConc: the stored targets, and a store that answers or
\* fails at the slot query or at the insert
ConcRequests ==
    Callers \X StoredTargets \X ServiceIdInputs \X TimeInputs
        \X {"none", "slot", "insert"}

Finish(p, status) ==
    /\ reqs' = [reqs EXCEPT ![p] = [@ EXCEPT !.pc = "done", !.status = status]]
    /\ resp' = Response("create_booking", status)

\* lines 47-118: the request arrives and is validated up to the time check
cb_begin(p, user_id, raw_target_type, target_id, service_id, scheduled_time, err) ==
    LET target_type == ToLowercase(raw_target_type)
        early == CreateBookingEarly(target_type, target_id, scheduled_time, err)
        r == [pc |-> IF early = 0 THEN "slot" ELSE "done",
              status |-> early,
              user_id |-> user_id, target_type |-> target_type,
              target_id |-> target_id, service_id |-> service_id,
              scheduled_time |-> scheduled_time,
              duration |-> ServiceDuration(service_id, err),
              err |-> err, booking_id |-> 0]
    IN /\ reqs[p].pc = "idle"
       /\ reqs' = [reqs EXCEPT ![p] = r]
       /\ resp' = IF early = 0 THEN resp ELSE Response("create_booking", early)
       /\ UNCHANGED <<extVars, users, clients, providers, businesses, services,
                      bookings, nextBookingId, now>>

\* lines 120-144: the slot query and its match
cb_slot(p) ==
    LET r == reqs[p]
        slot == CreateBookingSlot(bookings, r.target_type, r.target_id,
                                  r.scheduled_time, r.err)
    IN /\ r.pc = "slot"
       /\ IF slot = 0
             THEN /\ reqs' = [reqs EXCEPT ![p] = [r EXCEPT !.pc = "service"]]
                  /\ UNCHANGED resp
             ELSE Finish(p, slot)
       /\ UNCHANGED <<extVars, users, clients, providers, businesses, services,
                      bookings, nextBookingId, now>>

\* lines 146-178: the service query and its match
cb_service(p) ==
    LET r == reqs[p]
        service == CreateBookingService(r.service_id, r.target_type,
                                        r.target_id, r.err)
    IN /\ r.pc = "service"
       /\ IF service = 0
             THEN /\ reqs' = [reqs EXCEPT ![p] = [r EXCEPT !.pc = "insert"]]
                  /\ UNCHANGED resp
             ELSE Finish(p, service)
       /\ UNCHANGED <<extVars, users, clients, providers, businesses, services,
                      bookings, nextBookingId, now>>

\* lines 180-214: the insert and the response
cb_insert(p) ==
    LET r == reqs[p]
    IN /\ r.pc = "insert"
       /\ IF r.err = "insert"
             THEN /\ Finish(p, 500)
                  /\ UNCHANGED <<bookings, nextBookingId>>
             ELSE /\ bookings' = InsertBooking(bookings, nextBookingId,
                                    r.user_id, r.target_type, r.target_id,
                                    r.service_id, r.scheduled_time, r.duration)
                  /\ nextBookingId' = nextBookingId + 1
                  /\ reqs' = [reqs EXCEPT ![p] =
                                [r EXCEPT !.pc = "done", !.status = 201,
                                          !.booking_id = nextBookingId]]
                  /\ resp' = Response("create_booking", 201)
       /\ UNCHANGED <<extVars, users, clients, providers, businesses, services, now>>

NextConc ==
    \/ \E p \in Procs, r \in ConcRequests :
          cb_begin(p, r[1], r[2][1], r[2][2], r[3], r[4], r[5])
    \/ \E p \in Procs : cb_slot(p)
    \/ \E p \in Procs : cb_service(p)
    \/ \E p \in Procs : cb_insert(p)

SpecConc == InitBook /\ [][NextConc]_vars

----------------------------------------------------------------------------
(* SpecAuth: register and the two onboarding handlers, one request at a    *)
(* time, from an empty store.  A username or an email is a token of        *)
(* 0..MaxNames; token 0 stands for a string that payload.validate()        *)
(* rejects (a username shorter than 3, a malformed email).                 *)

NameInputs == 0..MaxNames
RoleInputs == {"client", "provider", "business", "admin"}
\* what an onboarding payload carries (service_name ... whatsapp)
ProfileInputs == {"a", "b"}

\* What a handler of SpecAuth does to the store and what it answers; status 0
\* is no answer at all: the handler panicked on an unwrap
AuthOutcome(status, us, cl, pr, bu) ==
    [status |-> status, users |-> us, clients |-> cl, providers |-> pr,
     businesses |-> bu]

AuthUnchanged(status) ==
    AuthOutcome(status, users, clients, providers, businesses)

\* the next value of a table's serial id (no row of these tables is deleted)
NextId(table) == Cardinality(table) + 1

\* #[derive(Validate)] on RegisterInput: username length, email shape (the
\* password length is part of password_ok)
ValidRegisterInput(username, email) == username # 0 /\ email # 0

\* The lookup by username alone: a variant the source does not have, which
\* C8 tells apart from the source's lookup
ExistingUser_UsernameOnly(username, email) ==
    {u \in users : u.username = username}

\* SELECT 1 FROM users WHERE username = $1 OR email = $2
ExistingUser(username, email) ==
    {u \in users : u.username = username \/ u.email = email}

\* INSERT INTO users (username, email, password) VALUES (...) RETURNING id
InsertUser(username, email) ==
    users \cup {[id |-> NextId(users), username |-> username, email |-> email]}

\* INSERT INTO clients|providers|businesses (user_id, ...) VALUES (...)
InsertProfile(table, user_id) ==
    table \cup {[id |-> NextId(table), user_id |-> user_id,
                 data |-> "registered"]}

RegisterErrors == {"select", "insert_user", "insert_role"}

\* register as a function of the store and the request; password_ok is
\* password = confirm_password and the password's length check
Register(username, email, password_ok, role, err) ==
    IF ~password_ok \/ ~ValidRegisterInput(username, email)
       THEN AuthUnchanged(400)
    ELSE IF err = "select" THEN AuthUnchanged(0)
    ELSE IF ExistingUser(username, email) # {} THEN AuthUnchanged(409)
    ELSE IF err = "insert_user" THEN AuthUnchanged(500)
    ELSE LET user_id == NextId(users)
             us == InsertUser(username, email)
         IN IF role \notin {"client", "provider", "business"}
               THEN AuthOutcome(400, us, clients, providers, businesses)
            ELSE IF err = "insert_role"
               THEN AuthOutcome(500, us, clients, providers, businesses)
            ELSE CASE role = "client" ->
                        AuthOutcome(201, us, InsertProfile(clients, user_id),
                                    providers, businesses)
                   [] role = "provider" ->
                        AuthOutcome(201, us, clients,
                                    InsertProfile(providers, user_id),
                                    businesses)
                   [] role = "business" ->
                        AuthOutcome(201, us, clients, providers,
                                    InsertProfile(businesses, user_id))

AuthStep(op, o) ==
    /\ resp' = Response(op, o.status)
    /\ users' = o.users
    /\ clients' = o.clients
    /\ providers' = o.providers
    /\ businesses' = o.businesses
    /\ UNCHANGED <<extVars, services, bookings, nextBookingId, now, reqs>>

register(username, email, password_ok, role, err) ==
    AuthStep("register", Register(username, email, password_ok, role, err))

\* UPDATE providers|businesses SET (...) = (...) WHERE user_id = $n RETURNING id
UpdateProfile(table, user_id, data) ==
    {IF row.user_id = user_id THEN [row EXCEPT !.data = data] ELSE row :
        row \in table}

OnboardErrors == {"begin", "select", "update", "commit"}

\* The body the two onboarding handlers share, on their own table: begin,
\* validate, SELECT 1 ... WHERE user_id, then update and commit or roll back
\* and answer 400
Onboard(table, user_id, payload_ok, data, err) ==
    IF err = "begin" THEN [status |-> 500, table |-> table]
    ELSE IF ~payload_ok THEN [status |-> 400, table |-> table]
    ELSE IF err = "select" THEN [status |-> 0, table |-> table]
    ELSE IF \E row \in table : row.user_id = user_id
       THEN IF err \in {"update", "commit"}
               THEN [status |-> 500, table |-> table]
               ELSE [status |-> 201,
                     table |-> UpdateProfile(table, user_id, data)]
    ELSE [status |-> 400, table |-> table]

OnboardServiceProvider(user_id, payload_ok, data, err) ==
    LET o == Onboard(providers, user_id, payload_ok, data, err)
    IN AuthOutcome(o.status, users, clients, o.table, businesses)

onboard_service_provider(user_id, payload_ok, data, err) ==
    AuthStep("onboard_service_provider",
             OnboardServiceProvider(user_id, payload_ok, data, err))

OnboardBusiness(user_id, payload_ok, data, err) ==
    LET o == Onboard(businesses, user_id, payload_ok, data, err)
    IN AuthOutcome(o.status, users, clients, providers, o.table)

onboard_business(user_id, payload_ok, data, err) ==
    AuthStep("onboard_business",
             OnboardBusiness(user_id, payload_ok, data, err))

InitAuth ==
    /\ users = {}
    /\ clients = {}
    /\ providers = {}
    /\ businesses = {}
    /\ services = {}
    /\ bookings = {}
    /\ nextBookingId = 1
    /\ now = 0
    /\ resp = Response("none", 0)
    /\ reqs = [p \in Procs |-> [pc |-> "idle"]]
    /\ InitExt

\* the callers of SpecAuth hold a token that login issued for a stored user
UserIds == {u.id : u \in users}

NextAuth ==
    \/ \E username \in NameInputs, email \in NameInputs,
          password_ok \in BOOLEAN, role \in RoleInputs,
          err \in {"none"} \cup RegisterErrors :
          register(username, email, password_ok, role, err)
    \/ \E u \in UserIds, payload_ok \in BOOLEAN, data \in ProfileInputs,
          err \in {"none"} \cup OnboardErrors :
          onboard_service_provider(u, payload_ok, data, err)
    \/ \E u \in UserIds, payload_ok \in BOOLEAN, data \in ProfileInputs,
          err \in {"none"} \cup OnboardErrors :
          onboard_business(u, payload_ok, data, err)

SpecAuth == InitAuth /\ [][NextAuth]_vars

----------------------------------------------------------------------------
(* Claims about the booking handlers (Spec) *)

SameSlot(a, b) ==
    /\ a.target_type = b.target_type
    /\ a.target_id = b.target_id
    /\ a.scheduled_time = b.scheduled_time

\* C1: after any sequence of create_booking, reschedule_booking,
\* update_booking and delete_booking requests handled one after another, no
\* two stored bookings share the same (target_type, target_id, scheduled_time).
C1_NoTwoBookingsShareASlot ==
    \A a \in bookings, b \in bookings : SameSlot(a, b) => a.id = b.id

BookingStatuses == {"pending", "confirmed", "rejected", "completed", "cancelled"}

AllowedTransitions ==
    {<<"pending", "confirmed">>, <<"pending", "rejected">>,
     <<"pending", "cancelled">>, <<"confirmed", "completed">>,
     <<"confirmed", "cancelled">>}

\* C3: a booking's status changes only along pending->confirmed,
\* pending->rejected, pending->cancelled, confirmed->completed and
\* confirmed->cancelled (so a completed, rejected or cancelled booking never
\* changes status again), and every booking's status is one of pending,
\* confirmed, rejected, completed, cancelled.
C3_StatusFollowsStateMachine ==
    /\ [](\A b \in bookings : b.status \in BookingStatuses)
    /\ [][\A a \in bookings, b \in bookings' :
             (a.id = b.id /\ a.status # b.status)
                => <<a.status, b.status>> \in AllowedTransitions]_vars

\* The outcome of create_booking for request r of CreateRequests
CreateOutcome(r) == CreateBooking(r[1], r[2][1], r[2][2], r[3], r[4], r[5])

\* The outcome o inserts exactly one booking, the one request r asks for, with
\* status pending and the caller as client_id
InsertsTheBooking(r, o) ==
    /\ bookings \subseteq o.bookings
    /\ Cardinality(o.bookings \ bookings) = 1
    /\ \A b \in o.bookings \ bookings :
          /\ b.status = "pending"
          /\ b.client_id = r[1]
          /\ b.target_type = r[2][1]
          /\ b.target_id = r[2][2]
          /\ b.scheduled_time = r[4]
          /\ \A c \in bookings : c.id # b.id

\* C4 as stated: create_booking returns 400 and inserts nothing when
\* scheduled_time is strictly before the current time; every other request
\* whose target_type is provider or business, whose target row exists and
\* whose slot is free returns 201 and inserts exactly one booking, with status
\* pending and the caller as client_id.  (Read for a store that answers every
\* statement.)
C4_CreateAsStated ==
    [][\A r \in CreateRequests :
          (/\ r[5] = "none"
           /\ create_booking(r[1], r[2][1], r[2][2], r[3], r[4], r[5]))
          => /\ r[4] < now => (resp'.status = 400 /\ bookings' = bookings)
             /\ (/\ r[4] >= now
                 /\ r[2][1] \in {"provider", "business"}
                 /\ TargetExists(r[2][1], r[2][2])
                 /\ ExistingBooking(bookings, r[2][1], r[2][2], r[4]) = {})
                => /\ resp'.status = 201
                   /\ InsertsTheBooking(r, Outcome(201, bookings'))]_vars

\* C4 as amended: create_booking inserts nothing when scheduled_time is
\* strictly before the current time, and answers 400 (500 when the
\* target-existence query fails); every other request whose target_type is
\* provider or business, whose target row exists, whose slot is free, whose
\* service_id, when given, names a service of the same target, and during
\* which no store statement fails, returns 201 and inserts exactly one
\* booking, with status pending and the caller as client_id.
C4_CreateValidatesThenInserts ==
    \A r \in CreateRequests :
       LET o == CreateOutcome(r)
       IN /\ r[4] < now
             => /\ o.bookings = bookings
                /\ o.status =
                     IF /\ r[5] = "target"
                        /\ ToLowercase(r[2][1]) \in {"provider", "business"}
                        /\ r[2][2] > 0
                     THEN 500 ELSE 400
          /\ (/\ r[4] >= now
              /\ r[2][1] \in {"provider", "business"}
              /\ TargetExists(r[2][1], r[2][2])
              /\ ExistingBooking(bookings, r[2][1], r[2][2], r[4]) = {}
              /\ (r[3] = None \/ ServiceExists(r[3], r[2][1], r[2][2]))
              /\ r[5] = "none")
             => (o.status = 201 /\ InsertsTheBooking(r, o))

\* C4's case: a create_booking answered 201 after the clock has moved on, and
\* the new pending booking is stored
C4_Witness ==
    /\ resp = Response("create_booking", 201)
    /\ now > 0
    /\ \E b \in bookings : /\ b.id = nextBookingId - 1
                           /\ b.status = "pending"
                           /\ b.scheduled_time >= now

\* The outcome of update_booking for request r of UpdateRequests
UpdateOutcome(r) == UpdateBooking(r[1], r[2][1], r[2][2], r[3], r[4], r[5])

\* C5 as stated: update_booking by a caller who does not own the
\* provider/business row named by (target_type, target_id) returns 403 and
\* leaves every booking unchanged.
C5_NonOwnerGets403 ==
    [][\A r \in UpdateRequests :
          (/\ update_booking(r[1], r[2][1], r[2][2], r[3], r[4], r[5])
           /\ TargetExists(ToLowercase(r[2][1]), r[2][2])
           /\ ~IsOwner(ToLowercase(r[2][1]), r[2][2], r[3]))
          => (resp'.status = 403 /\ bookings' = bookings)]_vars

\* C5 as amended: update_booking by a caller who does not own the row named
\* by (target_type, target_id) leaves every booking unchanged and is answered
\* 403, or 400 when the booking id is not positive (or the target type is
\* neither provider nor business, or the target id is not positive), or 500
\* when the ownership query fails; consequently no update_booking request of
\* user u changes a booking whose target u does not own.
C5_NonOwnerChangesNothing ==
    \A r \in UpdateRequests :
       LET o == UpdateOutcome(r)
       IN /\ ~IsOwner(ToLowercase(r[2][1]), r[2][2], r[3])
             => /\ o.bookings = bookings
                /\ o.status =
                     IF \/ ToLowercase(r[2][1]) \notin {"provider", "business"}
                        \/ r[2][2] <= 0
                        \/ r[1] <= 0
                     THEN 400
                     ELSE IF r[5] = "owner" THEN 500 ELSE 403
          /\ \A b \in bookings :
                ~IsOwner(b.target_type, b.target_id, r[3]) => b \in o.bookings

\* C5's case: a non-owner's update_booking was answered 403 while a booking
\* whose status an owner has changed is stored
C5_Witness ==
    /\ resp = Response("update_booking", 403)
    /\ \E b \in bookings : b.status # "pending"

\* C6: reschedule_booking(id, caller, t) with t not in the past sets the
\* scheduled_time of the booking with that id to t when its client_id is the
\* caller, and changes nothing else: status, target, service, duration and
\* every other booking stay as they were, no booking of another client is
\* modified, and a t in the past is answered 400 with no change.
C6_RescheduleOnlyMovesOwnBooking ==
    \A id \in BookingIdInputs, u \in Callers, t \in TimeInputs,
       err \in {"none"} \cup RescheduleErrors :
       LET o == RescheduleBooking(id, u, t, err)
       IN /\ t < now => (o.status = 400 /\ o.bookings = bookings)
          /\ {b.id : b \in o.bookings} = {b.id : b \in bookings}
          /\ Cardinality(o.bookings) = Cardinality(bookings)
          /\ \A b \in bookings :
                IF b.id = id /\ b.client_id = u /\ t >= now /\ err = "none"
                   THEN /\ [b EXCEPT !.scheduled_time = t] \in o.bookings
                        /\ o.status = 200
                   ELSE b \in o.bookings

\* C6's case: a reschedule_booking answered 200 has moved a booking onto the
\* time of a booking of another client, which is stored with its own status
C6_Witness ==
    /\ resp = Response("reschedule_booking", 200)
    /\ \E a \in bookings, b \in bookings :
          /\ a.id # b.id
          /\ a.client_id # b.client_id
          /\ a.scheduled_time = b.scheduled_time
          /\ a.status # b.status

\* C7: delete_booking removes a booking only when the caller is its client: a
\* caller who is not the owner gets 403 and the booking stays, a booking id
\* that does not exist is answered 404 with no change, and after a successful
\* delete that booking is absent and every other booking unchanged.  (Read
\* for a positive id and a store that answers every statement.)
C7_DeleteAsStated ==
    [][\A id \in BookingIdInputs \ {0}, u \in Callers :
          delete_booking(id, u, "none")
          => LET rows == {b \in bookings : b.id = id}
             IN /\ (rows # {} /\ \A b \in rows : b.client_id # u)
                   => (resp'.status = 403 /\ bookings' = bookings)
                /\ rows = {} => (resp'.status = 404 /\ bookings' = bookings)
                /\ (rows # {} /\ \A b \in rows : b.client_id = u)
                   => (resp'.status = 200 /\ bookings' = bookings \ rows)]_vars

----------------------------------------------------------------------------
(* Claims about concurrent create_booking requests (SpecConc) *)

\* the booking rows of request record r's slot
RowsOfSlot(r) ==
    ExistingBooking(bookings, r.target_type, r.target_id, r.scheduled_time)

\* C2: nothing stands between create_booking's slot check and its insert, no
\* lock, transaction or uniqueness guard: a request that found its slot free
\* and whose statements the store answers ends with 201 and its own row
\* stored, whatever other requests inserted in between, so two interleaved
\* requests for one slot that both passed the check both return 201 and
\* leave two bookings for that slot.
C2_CheckThenInsertIsNotGuarded ==
    /\ \A p \in Procs :
          (/\ reqs[p].pc = "done"
           /\ reqs[p].err = "none"
           /\ reqs[p].status # 400)
          => /\ reqs[p].status = 201
             /\ \E b \in RowsOfSlot(reqs[p]) :
                   b.id = reqs[p].booking_id /\ b.client_id = reqs[p].user_id
    /\ \A p \in Procs, q \in Procs :
          (/\ p # q
           /\ reqs[p].pc = "done" /\ reqs[p].status = 201
           /\ reqs[q].pc = "done" /\ reqs[q].status = 201
           /\ RowsOfSlot(reqs[p]) = RowsOfSlot(reqs[q]))
          => Cardinality(RowsOfSlot(reqs[p])) >= 2

\* C2's case: two requests for the same slot have both returned 201 and two
\* bookings of that slot are stored
C2_Witness ==
    \E p \in Procs, q \in Procs :
       /\ p # q
       /\ reqs[p].pc = "done" /\ reqs[p].status = 201
       /\ reqs[q].pc = "done" /\ reqs[q].status = 201
       /\ reqs[p].target_type = reqs[q].target_type
       /\ reqs[p].target_id = reqs[q].target_id
       /\ reqs[p].scheduled_time = reqs[q].scheduled_time
       /\ Cardinality(RowsOfSlot(reqs[p])) = 2

----------------------------------------------------------------------------
(* Claims about register and onboarding (SpecAuth) *)

\* no two stored users share a username, and no two share an email
UniqueNames ==
    \A a \in users, b \in users :
       a # b => (a.username # b.username /\ a.email # b.email)

\* C8 as stated: after any sequence of register requests no two users share a
\* username and no two share an email, and a register whose username or
\* email is that of a stored user returns 409 and inserts no user and no
\* profile row.  (Read for a store that answers every statement.)
C8_DuplicateGets409 ==
    /\ []UniqueNames
    /\ [][\A username \in NameInputs, email \in NameInputs,
             password_ok \in BOOLEAN, role \in RoleInputs :
             (/\ register(username, email, password_ok, role, "none")
              /\ \E u \in users : u.username = username \/ u.email = email)
             => /\ resp'.status = 409
                /\ UNCHANGED <<users, clients, providers, businesses>>]_vars

\* C8 as amended: no two users share a username and no two share an email; a
\* register whose username or email is that of a stored user inserts no user
\* and no profile row, and returns 409 when its payload passes validation
\* (the passwords match, the fields are well formed) and the lookup succeeds,
\* 400 when the payload fails validation.
C8_DuplicateInsertsNothing ==
    /\ UniqueNames
    /\ \A username \in NameInputs, email \in NameInputs,
          password_ok \in BOOLEAN, role \in RoleInputs,
          err \in {"none"} \cup RegisterErrors :
          (\E u \in users : u.username = username \/ u.email = email)
          => LET o == Register(username, email, password_ok, role, err)
             IN /\ o.users = users
                /\ o.clients = clients
                /\ o.providers = providers
                /\ o.businesses = businesses
                /\ (password_ok /\ username # 0 /\ email # 0 /\ err # "select")
                   => o.status = 409
                /\ ~(password_ok /\ username # 0 /\ email # 0)
                   => o.status = 400

\* C8's case: two users are stored and a register naming a taken username or
\* email has just been answered 409
C8_Witness ==
    /\ resp = Response("register", 409)
    /\ Cardinality(users) = 2

\* the profile rows, of the three tables, that reference user_id
ProfileCount(user_id) ==
    Cardinality({r \in clients : r.user_id = user_id})
    + Cardinality({r \in providers : r.user_id = user_id})
    + Cardinality({r \in businesses : r.user_id = user_id})

\* C9: after any sequence of register and onboard requests, failed ones
\* included, every stored user is referenced by exactly one profile row among
\* clients, providers and businesses, and no user_id has two rows in one
\* profile table.
C9_EveryUserHasOneProfile ==
    /\ \A u \in users : ProfileCount(u.id) = 1
    /\ \A table \in {clients, providers, businesses} :
          \A a \in table, b \in table : a.user_id = b.user_id => a = b

\* C10: onboard with a valid payload for a user who has no provider
\* (respectively business) row inserts one row for that user and returns
\* 201; when the user has a row, the call updates that row and inserts
\* none.  (Read for a store that answers every statement.)
C10_OnboardInsertsOrUpdates ==
    [][\A u \in UserIds, data \in ProfileInputs :
          /\ onboard_service_provider(u, TRUE, data, "none")
             => IF \E row \in providers : row.user_id = u
                   THEN /\ providers' = UpdateProfile(providers, u, data)
                        /\ resp'.status = 201
                   ELSE /\ resp'.status = 201
                        /\ providers \subseteq providers'
                        /\ Cardinality(providers') = Cardinality(providers) + 1
                        /\ \E row \in providers' : row.user_id = u
          /\ onboard_business(u, TRUE, data, "none")
             => IF \E row \in businesses : row.user_id = u
                   THEN /\ businesses' = UpdateProfile(businesses, u, data)
                        /\ resp'.status = 201
                   ELSE /\ resp'.status = 201
                        /\ businesses \subseteq businesses'
                        /\ Cardinality(businesses') = Cardinality(businesses) + 1
                        /\ \E row \in businesses' : row.user_id = u]_vars

----------------------------------------------------------------------------
(* SpecReview: send_message and create_reviews, one request at a time,     *)
(* over the users and targets of InitBook.                                 *)

\* at most MaxMessages rows are inserted into messages
MaxMessages == 2
\* at most MaxReviews rows are inserted into reviews
MaxReviews == 3

\* (target_type, target_id) of a review request: the two rows of InitBook,
\* the alias of provider, an unknown type, a non-positive id, a missing row
ReviewTargetInputs == {<<"provider", 1>>, <<"business", 1>>, <<"service_provider", 1>>, <<"shop", 1>>, <<"provider", 0>>, <<"business", 2>>}
CommentInputs == {"", "good"}
RatingInputs == {4, 5}
\* (target_type, target_id) of a message: send_message looks no target up
MessageTargetInputs == {<<"provider", 1>>, <<"business", 1>>, <<"Provider", 1>>, <<"shop", 1>>, <<"business", 2>>}
ContentInputs == {"", "hi"}

\* INSERT INTO messages (sender_id, receiver_id, target_type, target_id,
\*   content) VALUES (...): is_read and read_at take the column defaults
InsertMessage(ms, sender_id, receiver_id, target_type, target_id, content) ==
    ms \cup {[id |-> NextId(ms), sender_id |-> sender_id,
              receiver_id |-> receiver_id, target_type |-> target_type,
              target_id |-> target_id, content |-> content,
              created_at |-> now, is_read |-> FALSE, read_at |-> None]}

\* INSERT INTO interactions (user_id, target_type, target_id,
\*   interaction_type) VALUES ($1, $2, $3, 'message')
InsertInteraction(its, user_id, target_type, target_id) ==
    its \cup {[id |-> NextId(its), user_id |-> user_id,
               target_type |-> target_type, target_id |-> target_id,
               interaction_type |-> "message", created_at |-> now]}

MessageErrors == {"insert", "interaction"}

\* send_message with the interaction logged before the message insert: a
\* variant the source does not have, which C25 tells apart from the source's
SendMessage_InteractionFirst(user_id, content, raw_target_type, target_id, receiver_id, err) ==
    LET target_type == ToLowercase(raw_target_type)
        logged == IF err = "interaction" THEN interactions
                  ELSE InsertInteraction(interactions, user_id, target_type, target_id)
    IN IF content = "" THEN [status |-> 400, messages |-> messages, interactions |-> interactions]
       ELSE IF target_type \notin {"provider", "business"}
          THEN [status |-> 400, messages |-> messages, interactions |-> interactions]
       ELSE IF err = "insert"
          THEN [status |-> 500, messages |-> messages, interactions |-> logged]
       ELSE [status |-> 201,
             messages |-> InsertMessage(messages, user_id, receiver_id, target_type, target_id, content),
             interactions |-> logged]

\* send_message as a function of the store and the request: a failed
\* interaction insert is logged and the answer is still 201
SendMessage(user_id, content, raw_target_type, target_id, receiver_id, err) ==
    LET target_type == ToLowercase(raw_target_type)
    IN IF content = "" THEN [status |-> 400, messages |-> messages, interactions |-> interactions]
       ELSE IF target_type \notin {"provider", "business"}
          THEN [status |-> 400, messages |-> messages, interactions |-> interactions]
       ELSE IF err = "insert"
          THEN [status |-> 500, messages |-> messages, interactions |-> interactions]
       ELSE [status |-> 201,
             messages |-> InsertMessage(messages, user_id, receiver_id, target_type, target_id, content),
             interactions |-> IF err = "interaction" THEN interactions
                              ELSE InsertInteraction(interactions, user_id, target_type, target_id)]

send_message(user_id, content, raw_target_type, target_id, receiver_id, err) ==
    LET o == SendMessage(user_id, content, raw_target_type, target_id, receiver_id, err)
    IN /\ Cardinality(messages) < MaxMessages
       /\ resp' = Response("send_message", o.status)
       /\ messages' = o.messages
       /\ interactions' = o.interactions
       /\ UNCHANGED <<users, clients, providers, businesses, services, bookings, nextBookingId, now, reqs, reviews, favorites, admins, categories, nextCategoryId, nextServiceId, newVars>>

\* the match on params.target_type.to_lowercase(): None is the 400 arm
ReviewTargetType(raw_target_type) ==
    LET t == ToLowercase(raw_target_type)
    IN CASE t \in {"provider", "business"} -> Some(t)
         [] t = "service_provider" -> Some("provider")
         [] OTHER -> None

\* SELECT id FROM reviews WHERE reviewer_id = $1 AND target_type = $2
\*   AND target_id = $3
ExistingReview(rs, reviewer_id, target_type, target_id) ==
    {r \in rs : /\ r.reviewer_id = reviewer_id
                /\ r.target_type = target_type
                /\ r.target_id = target_id}

\* The lookup without its user_id condition: a variant the source does not
\* have, which C12 tells apart from the source's lookup
InteractionExists_AnyUser(user_id, target_type, target_id) ==
    \E i \in interactions : /\ i.target_type = target_type
                            /\ i.target_id = target_id

\* SELECT id FROM interactions WHERE user_id = $1 AND target_type = $2
\*   AND target_id = $3
InteractionExists(user_id, target_type, target_id) ==
    \E i \in interactions : /\ i.user_id = user_id
                            /\ i.target_type = target_type
                            /\ i.target_id = target_id

\* The insert under a unique index on (reviewer_id, target_type, target_id)
\* that ignores a conflicting row: a variant the source does not have, which
\* C28 tells apart from the source's insert
InsertReview_Unique(rs, reviewer_id, target_type, target_id, rating, comment) ==
    IF \E r \in rs : r.reviewer_id = reviewer_id /\ r.target_type = target_type /\ r.target_id = target_id
       THEN rs
       ELSE rs \cup {[id |-> NextId(rs), reviewer_id |-> reviewer_id,
                      target_type |-> target_type, target_id |-> target_id,
                      rating |-> rating, comment |-> comment, created_at |-> now]}

\* INSERT INTO reviews (reviewer_id, target_type, target_id, rating, comment)
InsertReview(rs, reviewer_id, target_type, target_id, rating, comment) ==
    rs \cup {[id |-> NextId(rs), reviewer_id |-> reviewer_id,
              target_type |-> target_type, target_id |-> target_id,
              rating |-> rating, comment |-> comment, created_at |-> now]}

ReviewErrors == {"target", "existing", "interaction", "insert"}

\* create_reviews as a function of the store and the request.  A failed
\* target lookup is answered like a missing target; a failed lookup of the
\* existing review is not an answer at all: the handler goes on
CreateReviews(user_id, raw_target_type, target_id, comment, rating, err) ==
    LET tt == ReviewTargetType(raw_target_type)
        target_type == UnwrapOr(tt, "")
    IN IF comment = "" THEN [status |-> 400, reviews |-> reviews]
       ELSE IF tt = None THEN [status |-> 400, reviews |-> reviews]
       ELSE IF target_id <= 0 THEN [status |-> 400, reviews |-> reviews]
       ELSE IF err = "target" \/ ~TargetExists(target_type, target_id)
          THEN [status |-> 404, reviews |-> reviews]
       ELSE IF err # "existing" /\ ExistingReview(reviews, user_id, target_type, target_id) # {}
          THEN [status |-> 409, reviews |-> reviews]
       ELSE IF err = "interaction" THEN [status |-> 500, reviews |-> reviews]
       ELSE IF ~InteractionExists(user_id, target_type, target_id)
          THEN [status |-> 403, reviews |-> reviews]
       ELSE IF err = "insert" THEN [status |-> 500, reviews |-> reviews]
       ELSE [status |-> 201,
             reviews |-> InsertReview(reviews, user_id, target_type, target_id, rating, comment)]

create_reviews(user_id, raw_target_type, target_id, comment, rating, err) ==
    LET o == CreateReviews(user_id, raw_target_type, target_id, comment, rating, err)
    IN /\ Cardinality(reviews) < MaxReviews
       /\ resp' = Response("create_reviews", o.status)
       /\ reviews' = o.reviews
       /\ UNCHANGED <<users, clients, providers, businesses, services, bookings, nextBookingId, now, reqs, messages, interactions, favorites, admins, categories, nextCategoryId, nextServiceId, newVars>>

\* the requests of SpecReview: a store failure is an input of the requests
\* that reach the store
MessageRequests ==
    (Callers \X ContentInputs \X MessageTargetInputs \X {"none"})
    \cup (Callers \X {"hi"} \X StoredTargets \X MessageErrors)

ReviewRequests ==
    (Callers \X ReviewTargetInputs \X CommentInputs \X RatingInputs \X {"none"})
    \cup (Callers \X StoredTargets \X {"good"} \X RatingInputs \X ReviewErrors)

NextReview ==
    \/ \E r \in MessageRequests :
          send_message(r[1], r[2], r[3][1], r[3][2], 1, r[4])
    \/ \E r \in ReviewRequests :
          create_reviews(r[1], r[2][1], r[2][2], r[3], r[4], r[5])
    \/ Tick

SpecReview == InitBook /\ [][NextReview]_vars

----------------------------------------------------------------------------
(* SpecRevConc: create_reviews requests interleaved at their await points. *)
(* Each request p runs the statements of create_reviews in source order;   *)
(* between two statements the other request may run.                       *)

\* the request p is answered with status
FinishReview(p, status) ==
    /\ reqs' = [reqs EXCEPT ![p] = [reqs[p] EXCEPT !.pc = "done", !.status = status]]
    /\ resp' = Response("create_reviews", status)

\* lines 49-119: the validations and the target lookup
cr_begin(p, user_id, raw_target_type, target_id, comment, rating, err) ==
    LET tt == ReviewTargetType(raw_target_type)
        target_type == UnwrapOr(tt, "")
        early == IF comment = "" \/ tt = None \/ target_id <= 0 THEN 400
                 ELSE IF err = "target" \/ ~TargetExists(target_type, target_id) THEN 404
                 ELSE 0
        r == [pc |-> IF early = 0 THEN "existing" ELSE "done",
              status |-> early, user_id |-> user_id, target_type |-> target_type,
              target_id |-> target_id, comment |-> comment, rating |-> rating,
              err |-> err, review_id |-> 0]
    IN /\ reqs[p].pc = "idle"
       /\ reqs' = [reqs EXCEPT ![p] = r]
       /\ resp' = IF early = 0 THEN resp ELSE Response("create_reviews", early)
       /\ UNCHANGED <<extVars, users, clients, providers, businesses, services, bookings, nextBookingId, now>>

\* lines 121-136: the lookup of an existing review; a failed lookup lets
\* the request go on
cr_existing(p) ==
    LET r == reqs[p]
    IN /\ r.pc = "existing"
       /\ IF r.err # "existing" /\ ExistingReview(reviews, r.user_id, r.target_type, r.target_id) # {}
             THEN FinishReview(p, 409)
             ELSE /\ reqs' = [reqs EXCEPT ![p] = [r EXCEPT !.pc = "interaction"]]
                  /\ UNCHANGED resp
       /\ UNCHANGED <<extVars, users, clients, providers, businesses, services, bookings, nextBookingId, now>>

\* lines 138-165: the lookup of an interaction and its match
cr_interaction(p) ==
    LET r == reqs[p]
    IN /\ r.pc = "interaction"
       /\ IF r.err = "interaction" THEN FinishReview(p, 500)
          ELSE IF ~InteractionExists(r.user_id, r.target_type, r.target_id) THEN FinishReview(p, 403)
          ELSE /\ reqs' = [reqs EXCEPT ![p] = [r EXCEPT !.pc = "insert"]]
               /\ UNCHANGED resp
       /\ UNCHANGED <<extVars, users, clients, providers, businesses, services, bookings, nextBookingId, now>>

\* lines 167-191: the insert and its match
cr_insert(p) ==
    LET r == reqs[p]
    IN /\ r.pc = "insert"
       /\ IF r.err = "insert"
             THEN /\ FinishReview(p, 500)
                  /\ UNCHANGED reviews
             ELSE /\ reviews' = InsertReview(reviews, r.user_id, r.target_type, r.target_id, r.rating, r.comment)
                  /\ reqs' = [reqs EXCEPT ![p] = [r EXCEPT !.pc = "done", !.status = 201,
                                                           !.review_id = NextId(reviews)]]
                  /\ resp' = Response("create_reviews", 201)
       /\ UNCHANGED <<users, clients, providers, businesses, services, bookings, nextBookingId, now, messages, interactions, favorites, admins, categories, nextCategoryId, nextServiceId, newVars>>

\* <<user_id, target, comment, rating, err>> of the interleaved requests
ConcReviewRequests ==
    ({1} \X {<<"provider", 1>>, <<"business", 1>>, <<"shop", 1>>} \X CommentInputs \X {4} \X {"none"})
    \cup ({1} \X {<<"provider", 1>>} \X {"good"} \X {5} \X ReviewErrors)

NextRevConc ==
    \/ \E r \in {q \in MessageRequests : q[1] = 1 /\ q[4] = "none"} :
          send_message(r[1], r[2], r[3][1], r[3][2], 1, r[4])
    \/ \E p \in Procs, r \in ConcReviewRequests :
          cr_begin(p, r[1], r[2][1], r[2][2], r[3], r[4], r[5])
    \/ \E p \in Procs : cr_existing(p)
    \/ \E p \in Procs : cr_interaction(p)
    \/ \E p \in Procs : cr_insert(p)

SpecRevConc == InitBook /\ [][NextRevConc]_vars

----------------------------------------------------------------------------
(* SpecAgg: the aggregate rating of a target, read while messages and      *)
(* reviews are stored.  average_rating is carried in hundredths, the       *)
(* values ROUND(..., 2) can return.                                        *)

\* the rows of SELECT ... FROM reviews WHERE target_type = $1 AND target_id = $2
ReviewsOf(rs, target_type, target_id) ==
    {r \in rs : r.target_type = target_type /\ r.target_id = target_id}

\* SUM(rating) over a set of review rows
RECURSIVE SumRatings(_)
SumRatings(rs) ==
    IF rs = {} THEN 0
    ELSE LET r == CHOOSE x \in rs : TRUE
         IN r.rating + SumRatings(rs \ {r})

\* ROUND(AVG(rating)::numeric, 2) of a non-empty group, in hundredths:
\* numeric rounding is to the nearest hundredth, ties away from zero
RoundedAvg(rs) == (200 * SumRatings(rs) + Cardinality(rs)) \div (2 * Cardinality(rs))

\* The grouped query with fetch_optional: GROUP BY target_id yields one
\* row for a target with reviews and no row at all for a target without
AggregatedRating(rs, target_type, target_id) ==
    LET rows == ReviewsOf(rs, target_type, target_id)
    IN IF rows = {} THEN None
       ELSE Some([target_id |-> target_id, average_rating |-> RoundedAvg(rows),
                  review_count |-> Cardinality(rows)])

\* get_review_agg_by_id: the body is {"aggregated_rating": data}, data the
\* optional row (null when None)
GetReviewAggById(rs, raw_target_type, target_id, err) ==
    LET target_type == ToLowercase(raw_target_type)
    IN IF target_type \notin {"provider", "business"}
          THEN [status |-> 400, aggregated_rating |-> None]
       ELSE IF target_id <= 0 THEN [status |-> 400, aggregated_rating |-> None]
       ELSE IF err = "query" THEN [status |-> 500, aggregated_rating |-> None]
       ELSE [status |-> 200, aggregated_rating |-> AggregatedRating(rs, target_type, target_id)]

get_review_agg_by_id(raw_target_type, target_id, err) ==
    LET o == GetReviewAggById(reviews, raw_target_type, target_id, err)
    IN /\ resp' = [op |-> "get_review_agg_by_id", status |-> o.status, aggregated_rating |-> o.aggregated_rating]
       /\ UNCHANGED <<users, clients, providers, businesses, services, bookings, nextBookingId, now, reqs, extVars>>

\* <<target_type, target_id, err>> of an aggregate request
AggRequests ==
    ({"provider", "Provider", "business", "shop"} \X {0, 1, 2} \X {"none"})
    \cup ({"provider"} \X {1} \X {"query"})

NextAgg ==
    \/ \E u \in Callers, t \in StoredTargets : send_message(u, "hi", t[1], t[2], 1, "none")
    \/ \E u \in Callers, t \in StoredTargets, rating \in RatingInputs, err \in {"none", "existing"} :
          create_reviews(u, t[1], t[2], "good", rating, err)
    \/ \E q \in AggRequests : get_review_agg_by_id(q[1], q[2], q[3])

SpecAgg == InitBook /\ [][NextAgg]_vars

----------------------------------------------------------------------------
(* SpecFav: add_favorite and remove_favorite, one request at a time, over  *)
(* the users and targets of InitBook.                                      *)

\* the rows of fs of one (user_id, target_type, target_id)
FavoriteRows(fs, user_id, target_type, target_id) ==
    {f \in fs : /\ f.user_id = user_id
                /\ f.target_type = target_type
                /\ f.target_id = target_id}

\* The insert without its ON CONFLICT clause, on a table without the unique
\* index: a variant the source does not have, which C13 tells apart from the
\* source's insert
InsertFavorite_NoConflictClause(fs, user_id, target_type, target_id) ==
    fs \cup {[user_id |-> user_id, target_type |-> target_type,
              target_id |-> target_id, created_at |-> now]}

\* INSERT INTO favorites (user_id, target_type, target_id) VALUES ($1, $2, $3)
\*   ON CONFLICT (user_id, target_type, target_id) DO NOTHING
InsertFavorite(fs, user_id, target_type, target_id) ==
    IF FavoriteRows(fs, user_id, target_type, target_id) # {} THEN fs
    ELSE fs \cup {[user_id |-> user_id, target_type |-> target_type,
                   target_id |-> target_id, created_at |-> now]}

\* DELETE FROM favorites WHERE user_id = $1 AND target_id = $2
DeleteFavorite(fs, user_id, id) ==
    {f \in fs : ~(f.user_id = user_id /\ f.target_id = id)}

FavoriteErrors == {"insert"}

\* add_favorite as a function of the store and the request
AddFavorite(user_id, raw_target_type, target_id, err) ==
    LET target_type == ToLowercase(raw_target_type)
    IN IF target_type \notin {"provider", "business"}
          THEN [status |-> 400, favorites |-> favorites]
       ELSE IF target_id <= 0 THEN [status |-> 400, favorites |-> favorites]
       ELSE IF err = "insert" THEN [status |-> 500, favorites |-> favorites]
       ELSE [status |-> 200,
             favorites |-> InsertFavorite(favorites, user_id, target_type, target_id)]

add_favorite(user_id, raw_target_type, target_id, err) ==
    LET o == AddFavorite(user_id, raw_target_type, target_id, err)
    IN /\ resp' = Response("add_favorite", o.status)
       /\ favorites' = o.favorites
       /\ UNCHANGED <<users, clients, providers, businesses, services, bookings, nextBookingId, now, reqs, messages, interactions, reviews, admins, categories, nextCategoryId, nextServiceId, newVars>>

\* remove_favorite as a function of the store and the request
RemoveFavorite(user_id, id, err) ==
    IF id <= 0 THEN [status |-> 400, favorites |-> favorites]
    ELSE IF err = "delete" THEN [status |-> 500, favorites |-> favorites]
    ELSE [status |-> 200, favorites |-> DeleteFavorite(favorites, user_id, id)]

remove_favorite(user_id, id, err) ==
    LET o == RemoveFavorite(user_id, id, err)
    IN /\ resp' = Response("remove_favorite", o.status)
       /\ favorites' = o.favorites
       /\ UNCHANGED <<users, clients, providers, businesses, services, bookings, nextBookingId, now, reqs, messages, interactions, reviews, admins, categories, nextCategoryId, nextServiceId, newVars>>

\* the ids remove_favorite is called with
FavoriteIdInputs == {0, 1, 2}

NextFav ==
    \/ \E u \in Callers, t \in TargetInputs, err \in {"none"} \cup FavoriteErrors :
          add_favorite(u, t[1], t[2], err)
    \/ \E u \in Callers, id \in FavoriteIdInputs, err \in {"none", "delete"} :
          remove_favorite(u, id, err)
    \/ Tick

SpecFav == InitBook /\ [][NextFav]_vars

----------------------------------------------------------------------------
(* SpecMsg: send_message, mark_messages_as_read and                        *)
(* get_unread_messages_count, one request at a time, over the users and    *)
(* targets of InitBook: user 1 owns provider row 1, user 2 business row 1. *)

\* get_target_id: the id of the caller's provider or business row, None for
\* its Err (no row, another target type, a failed query)
GetTargetId(user_id, target_type, err) ==
    IF err = "resolve" THEN None
    ELSE CASE target_type = "provider" -> {p.id : p \in {q \in providers : q.user_id = user_id}}
           [] target_type = "business" -> {b.id : b \in {c \in businesses : c.user_id = user_id}}
           [] OTHER -> None

\* The update without its is_read = FALSE condition: a variant the source
\* does not have, which C15 tells apart from the source's update
MarkRead_AlsoReadRows(ms, at, message_ids, receiver_id) ==
    {IF m.id \in message_ids /\ m.receiver_id = receiver_id
        THEN [m EXCEPT !.is_read = TRUE, !.read_at = Some(at)] ELSE m : m \in ms}

\* An update that flips the read state of the named rows: a variant the
\* source does not have, which C29 tells apart from the source's update
MarkRead_Toggle(ms, at, message_ids, receiver_id) ==
    {IF m.id \in message_ids /\ m.receiver_id = receiver_id
        THEN (IF m.is_read THEN [m EXCEPT !.is_read = FALSE, !.read_at = None]
              ELSE [m EXCEPT !.is_read = TRUE, !.read_at = Some(at)])
        ELSE m : m \in ms}

\* UPDATE messages SET is_read = TRUE, read_at = $1
\*   WHERE id = ANY($2) AND receiver_id = $3 AND is_read = FALSE
MarkRead(ms, at, message_ids, receiver_id) ==
    {IF m.id \in message_ids /\ m.receiver_id = receiver_id /\ ~m.is_read
        THEN [m EXCEPT !.is_read = TRUE, !.read_at = Some(at)] ELSE m : m \in ms}

\* SELECT COUNT(*) FROM messages WHERE receiver_id = $1 AND is_read = FALSE
CountUnread(ms, receiver_id) ==
    Cardinality({m \in ms : m.receiver_id = receiver_id /\ ~m.is_read})

\* mark_messages_as_read on the table ms at time at
MarkMessagesAsRead(ms, at, user_id, message_ids, raw_target_type, target_id, sender_id, err) ==
    LET target_type == ToLowercase(raw_target_type)
        receiver_id == GetTargetId(user_id, target_type, err)
    IN IF message_ids = {} THEN [status |-> 400, messages |-> ms]
       ELSE IF raw_target_type = "" \/ target_type \notin {"provider", "business"}
          THEN [status |-> 400, messages |-> ms]
       ELSE IF target_id <= 0 \/ sender_id <= 0 THEN [status |-> 400, messages |-> ms]
       ELSE IF receiver_id = None THEN [status |-> 403, messages |-> ms]
       ELSE IF err = "update" THEN [status |-> 500, messages |-> ms]
       ELSE [status |-> 200,
             messages |-> MarkRead(ms, at, message_ids, UnwrapOr(receiver_id, 0))]

mark_messages_as_read(user_id, message_ids, raw_target_type, target_id, sender_id, err) ==
    LET o == MarkMessagesAsRead(messages, now, user_id, message_ids, raw_target_type, target_id, sender_id, err)
    IN /\ resp' = Response("mark_messages_as_read", o.status)
       /\ messages' = o.messages
       /\ UNCHANGED <<users, clients, providers, businesses, services, bookings, nextBookingId, now, reqs, interactions, reviews, favorites, admins, categories, nextCategoryId, nextServiceId, newVars>>

\* get_unread_messages_count on the table ms: the answer and, with 200, the
\* unread_count of its body (0 in the other answers, which carry none)
GetUnreadMessagesCount(ms, user_id, raw_target_type, err) ==
    LET receiver_id == GetTargetId(user_id, ToLowercase(raw_target_type), err)
    IN IF receiver_id = None THEN [status |-> 403, unread_count |-> 0]
       ELSE IF err = "count" THEN [status |-> 500, unread_count |-> 0]
       ELSE [status |-> 200, unread_count |-> CountUnread(ms, UnwrapOr(receiver_id, 0))]

get_unread_messages_count(user_id, raw_target_type, err) ==
    LET o == GetUnreadMessagesCount(messages, user_id, raw_target_type, err)
    IN /\ resp' = [op |-> "get_unread_messages_count", status |-> o.status, unread_count |-> o.unread_count]
       /\ UNCHANGED <<users, clients, providers, businesses, services, bookings, nextBookingId, now, reqs, extVars>>

\* receiver_id as senders give it: the id of user 1 and of both target rows,
\* the id of user 2
ReceiverInputs == {1, 2}
MessageIdInputs == SUBSET (1..MaxMessages)
\* (target_type, target_id, sender_id) of a mark_messages_as_read payload
MarkReadInputs == {<<"provider", 1, 1>>, <<"business", 1, 1>>, <<"BUSINESS", 1, 2>>, <<"shop", 1, 1>>, <<"", 1, 1>>, <<"provider", 0, 1>>, <<"business", 1, 0>>}
MarkReadErrors == {"resolve", "update"}
UnreadErrors == {"resolve", "count"}

MarkReadRequests ==
    (Callers \X MessageIdInputs \X MarkReadInputs \X {"none"})
    \cup (Callers \X {1..MaxMessages} \X {<<"provider", 1, 1>>, <<"business", 1, 1>>} \X MarkReadErrors)

NextMsg ==
    \/ \E u \in Callers, c \in ContentInputs, t \in StoredTargets, receiver_id \in ReceiverInputs, err \in {"none", "insert"} :
          send_message(u, c, t[1], t[2], receiver_id, err)
    \/ \E r \in MarkReadRequests :
          mark_messages_as_read(r[1], r[2], r[3][1], r[3][2], r[3][3], r[4])
    \/ \E u \in Callers, tt \in {"provider", "business", "Provider", "shop"}, err \in {"none"} \cup UnreadErrors :
          get_unread_messages_count(u, tt, err)
    \/ Tick

SpecMsg == InitBook /\ [][NextMsg]_vars

----------------------------------------------------------------------------
(* SpecAdmin: the routes of admin_routes.  Every request passes the        *)
(* CurrentUser extractor, then the body of require_admin, then the         *)
(* handler.  The response records the steps the request went through.     *)

MaxCategories == 3

\* The Authorization header of a request: absent, without the Bearer
\* prefix, a bearer token decode_jwt rejects, or a token that verifies with
\* subject header[2]
AdminSubjects == 1..4
HeaderInputs == {<<"missing", 0>>, <<"malformed", 0>>, <<"unverifiable", 0>>} \cup ({"valid"} \X AdminSubjects)

\* CurrentUser::from_request_parts: the subject of the token, None is the
\* 401 rejection
FromRequestParts(header) == IF header[1] = "valid" THEN Some(header[2]) ELSE None

\* SELECT is_super_admin FROM admins WHERE id = $1 (fetch_optional)
AdminCheck(user_id) == {a \in admins : a.id = user_id}

\* the guard of the first match arm of require_admin, without the flag
RequireAdmin_AnyRow(user_id, err) ==
    /\ err # "admin_check"
    /\ AdminCheck(user_id) # {}

\* require_admin: TRUE when the request is passed on to next.run; every
\* other result of the lookup, a store error included, is the `_` arm
RequireAdmin(user_id, err) ==
    /\ err # "admin_check"
    /\ \E row \in AdminCheck(user_id) : UnwrapOr(row.is_super_admin, FALSE)

AdminUnchanged(status) ==
    [status |-> status, users |-> users, categories |-> categories,
     nextCategoryId |-> nextCategoryId]

\* names as NewCategory's validator sees them: "" and a name of 101
\* characters fail length(min = 1, max = 100)
CategoryNameInputs == {"", "name of 101 characters", "a", "b"}
ValidCategoryName(name) == name \notin {"", "name of 101 characters"}

\* An insert that also makes the new row the parent of the row it names as
\* its parent: a variant the source does not have, which C26 tells apart
\* from the source's insert
InsertCategory_Reparent(cs, id, name, parent_id) ==
    {IF Some(c.id) = parent_id THEN [c EXCEPT !.parent_id = Some(id)] ELSE c : c \in cs}
    \cup {[id |-> id, name |-> name, parent_id |-> parent_id]}

\* INSERT INTO categories (name, parent_id) VALUES ($1, $2)
InsertCategory(cs, id, name, parent_id) ==
    cs \cup {[id |-> id, name |-> name, parent_id |-> parent_id]}

CreateCategory(name, parent_id, err) ==
    IF ~ValidCategoryName(name) THEN AdminUnchanged(400)
    ELSE IF err = "insert" THEN AdminUnchanged(500)
    ELSE [status |-> 201, users |-> users,
          categories |-> InsertCategory(categories, nextCategoryId, name, parent_id),
          nextCategoryId |-> nextCategoryId + 1]

\* SELECT id FROM categories WHERE name = $1 AND id IS NULL
\* (id is the primary key and never NULL: no row satisfies the condition)
ParentCategory(cs, name) == {c \in cs : c.name = name /\ FALSE}

\* create_parent_category: one transaction; status 0 is the panic of an
\* expect(), which drops the transaction and sends no response
CreateParentCategory(name, parent_name, err) ==
    IF err = "begin" THEN AdminUnchanged(500)
    ELSE IF err = "select" THEN AdminUnchanged(500)
    ELSE LET found == ParentCategory(categories, parent_name)
             parent_id == IF found # {} THEN (CHOOSE c \in found : TRUE).id ELSE nextCategoryId
             withParent == IF found # {} THEN categories
                           ELSE InsertCategory(categories, nextCategoryId, parent_name, None)
             sub_id == IF found # {} THEN nextCategoryId ELSE nextCategoryId + 1
         IN IF found = {} /\ err = "insert_parent" THEN AdminUnchanged(0)
            ELSE IF err = "insert" THEN AdminUnchanged(500)
            ELSE IF err = "commit" THEN AdminUnchanged(0)
            ELSE [status |-> 201, users |-> users,
                  categories |-> InsertCategory(withParent, sub_id, name, Some(parent_id)),
                  nextCategoryId |-> sub_id + 1]

\* DELETE FROM categories WHERE id = $1
DeleteCategory(category_id, err) ==
    IF err = "delete" THEN AdminUnchanged(500)
    ELSE [status |-> 200, users |-> users,
          categories |-> {c \in categories : c.id # category_id},
          nextCategoryId |-> nextCategoryId]

\* DELETE FROM users WHERE id = $1
DeleteUser(user_id, err) ==
    IF err = "delete" THEN AdminUnchanged(500)
    ELSE [status |-> 200, users |-> {u \in users : u.id # user_id},
          categories |-> categories, nextCategoryId |-> nextCategoryId]

\* the handler a route of admin_routes is bound to, applied to payload
\* (a, b) of the request
AdminHandler(route, a, b, err) ==
    CASE route = "create_category" -> CreateCategory(a, b, err)
      [] route = "create_parent_category" -> CreateParentCategory(a, b, err)
      [] route = "delete_category" -> DeleteCategory(a, err)
      [] route = "delete_user" -> DeleteUser(a, err)

\* A request to a route of admin_routes: the extractor of require_admin's
\* CurrentUser argument, the body of require_admin, next.run
AdminRoute(route, header, a, b, err) ==
    LET current_user == FromRequestParts(header)
    IN IF current_user = None
          THEN [steps |-> <<"current_user">>, out |-> AdminUnchanged(401)]
       ELSE IF ~RequireAdmin(UnwrapOr(current_user, 0), err)
          THEN [steps |-> <<"current_user", "admin_check">>, out |-> AdminUnchanged(403)]
       ELSE [steps |-> <<"current_user", "admin_check", route>>,
             out |-> AdminHandler(route, a, b, err)]

admin_request(route, header, a, b, err) ==
    LET r == AdminRoute(route, header, a, b, err)
    IN /\ r.out.nextCategoryId <= MaxCategories + 1
       /\ resp' = [op |-> route, status |-> r.out.status, steps |-> r.steps]
       /\ users' = r.out.users
       /\ categories' = r.out.categories
       /\ nextCategoryId' = r.out.nextCategoryId
       /\ UNCHANGED <<clients, providers, businesses, services, bookings, nextBookingId, now, reqs, messages, interactions, reviews, favorites, admins, nextServiceId, newVars>>

create_category(header, name, parent_id, err) == admin_request("create_category", header, name, parent_id, err)
create_parent_category(header, name, parent_name, err) == admin_request("create_parent_category", header, name, parent_name, err)
delete_category(header, category_id, err) == admin_request("delete_category", header, category_id, 0, err)
delete_user(header, user_id, err) == admin_request("delete_user", header, user_id, 0, err)

\* the payloads of the four mutating routes, as <<route, a, b>>
AdminPayloads ==
    ({"create_category"} \X CategoryNameInputs \X {None, Some(1)})
    \cup ({"create_parent_category"} \X {"a", "b"} \X {"b"})
    \cup ({"delete_category"} \X (1..MaxCategories) \X {0})
    \cup ({"delete_user"} \X (1..3) \X {0})

\* the statements of a route that the store can fail
AdminErrors(route) ==
    {"admin_check"} \cup
    CASE route = "create_category" -> {"insert"}
      [] route = "create_parent_category" -> {"begin", "select", "insert_parent", "insert", "commit"}
      [] route = "delete_category" -> {"delete"}
      [] route = "delete_user" -> {"delete"}

AdminRequests ==
    {q \in HeaderInputs \X AdminPayloads \X {"none", "admin_check", "begin", "select", "insert_parent", "insert", "commit", "delete"} :
        q[3] \in {"none"} \cup AdminErrors(q[2][1])}

\* The store of InitBook with the seeded admins table: user 1 is a super
\* admin, the rows of users 2 and 3 carry FALSE and NULL, user 4 has no row
InitAdmin ==
    /\ users = {[id |-> 1, username |-> "u1", email |-> "e1"],
                [id |-> 2, username |-> "u2", email |-> "e2"]}
    /\ providers = {[id |-> 1, user_id |-> 1, data |-> "registered"]}
    /\ businesses = {[id |-> 1, user_id |-> 2, data |-> "registered"]}
    /\ clients = {}
    /\ services = {[id |-> 1, target_type |-> "provider", target_id |-> 1,
                    duration |-> Some(30)]}
    /\ bookings = {}
    /\ nextBookingId = 1
    /\ now = 0
    /\ resp = Response("none", 0)
    /\ reqs = [p \in Procs |-> [pc |-> "idle"]]
    /\ messages = {}
    /\ interactions = {}
    /\ reviews = {}
    /\ favorites = {}
    /\ admins = {[id |-> 1, is_super_admin |-> Some(TRUE)],
                 [id |-> 2, is_super_admin |-> Some(FALSE)],
                 [id |-> 3, is_super_admin |-> None]}
    /\ categories = {}
    /\ nextCategoryId = 1
    /\ nextServiceId = Cardinality(services) + 1
    /\ InitNew

NextAdmin ==
    \/ \E q \in AdminRequests : q[2][1] = "create_category" /\ create_category(q[1], q[2][2], q[2][3], q[3])
    \/ \E q \in AdminRequests : q[2][1] = "create_parent_category" /\ create_parent_category(q[1], q[2][2], q[2][3], q[3])
    \/ \E q \in AdminRequests : q[2][1] = "delete_category" /\ delete_category(q[1], q[2][2], q[3])
    \/ \E q \in AdminRequests : q[2][1] = "delete_user" /\ delete_user(q[1], q[2][2], q[3])

SpecAdmin == InitAdmin /\ [][NextAdmin]_vars

----------------------------------------------------------------------------
(* SpecSvc: the catalogue handlers of services_routes over the store of   *)
(* InitBook.  Each handler runs in one transaction: a return before the   *)
(* commit drops the transaction and leaves the table as it was.           *)

MaxServices == 3

ServiceTargetInputs == {<<"provider", 1>>, <<"business", 1>>, <<"provider", 2>>, <<"Provider", 1>>, <<"shop", 1>>}
CatalogueIds == 1..MaxServices
\* payload.duration of create_service (i32) and of edit_service (Option<i32>)
DurationInputs == {45}
EditDurationInputs == {None, Some(60)}

\* the permission lookup without its user_id condition
OwnedTarget_AnyOwner(user_id, target_type, target_id) ==
    IF target_type = "provider" THEN {p \in providers : p.id = target_id}
    ELSE {b \in businesses : b.id = target_id}

\* SELECT id FROM providers / businesses WHERE id = $1 AND user_id = $2
OwnedTarget(user_id, target_type, target_id) ==
    IF target_type = "provider"
       THEN {p \in providers : p.id = target_id /\ p.user_id = user_id}
       ELSE {b \in businesses : b.id = target_id /\ b.user_id = user_id}

ServiceOutcome(status, table, next_id) ==
    [status |-> status, services |-> table, nextServiceId |-> next_id]

\* INSERT INTO services (target_id, target_type, ..., duration, ...) RETURNING id
InsertService(ss, id, target_type, target_id, duration) ==
    ss \cup {[id |-> id, target_type |-> target_type, target_id |-> target_id,
              duration |-> Some(duration)]}

\* a failed INSERT has drawn its id from the sequence all the same
CreateService(user_id, target_type, target_id, duration, err) ==
    IF err = "begin" THEN ServiceOutcome(500, services, nextServiceId)
    ELSE IF target_type \notin {"provider", "business"}
       THEN ServiceOutcome(400, services, nextServiceId)
    ELSE IF err = "check" THEN ServiceOutcome(500, services, nextServiceId)
    ELSE IF OwnedTarget(user_id, target_type, target_id) = {}
       THEN ServiceOutcome(403, services, nextServiceId)
    ELSE IF err = "insert" THEN ServiceOutcome(500, services, nextServiceId)
    ELSE IF err = "commit" THEN ServiceOutcome(500, services, nextServiceId + 1)
    ELSE ServiceOutcome(201,
            InsertService(services, nextServiceId, target_type, target_id, duration),
            nextServiceId + 1)

create_service(user_id, target_type, target_id, duration, err) ==
    LET o == CreateService(user_id, target_type, target_id, duration, err)
    IN /\ o.nextServiceId <= MaxServices + 1
       /\ resp' = Response("create_service", o.status)
       /\ services' = o.services
       /\ nextServiceId' = o.nextServiceId
       /\ UNCHANGED <<users, clients, providers, businesses, bookings, nextBookingId, now, reqs, messages, interactions, reviews, favorites, admins, categories, nextCategoryId, newVars>>

\* UPDATE services SET duration = COALESCE($4, duration), ...
\* WHERE id = $7 AND target_id = $8 AND target_type = $9 RETURNING id
UpdateService(ss, service_id, target_type, target_id, duration) ==
    {IF s.id = service_id /\ s.target_id = target_id /\ s.target_type = target_type
        THEN [s EXCEPT !.duration = IF duration = None THEN s.duration ELSE duration]
        ELSE s : s \in ss}

\* fetch_one on the UPDATE: no matching row is an Err, answered 500
EditService(user_id, service_id, target_type, target_id, duration, err) ==
    IF err = "begin" THEN ServiceOutcome(500, services, nextServiceId)
    ELSE IF target_type \notin {"provider", "business"}
       THEN ServiceOutcome(400, services, nextServiceId)
    ELSE IF err = "check" THEN ServiceOutcome(500, services, nextServiceId)
    ELSE IF OwnedTarget(user_id, target_type, target_id) = {}
       THEN ServiceOutcome(403, services, nextServiceId)
    ELSE IF err = "update" THEN ServiceOutcome(500, services, nextServiceId)
    ELSE IF ~\E s \in services : /\ s.id = service_id
                                 /\ s.target_id = target_id
                                 /\ s.target_type = target_type
       THEN ServiceOutcome(500, services, nextServiceId)
    ELSE IF err = "commit" THEN ServiceOutcome(500, services, nextServiceId)
    ELSE ServiceOutcome(200,
            UpdateService(services, service_id, target_type, target_id, duration),
            nextServiceId)

edit_service(user_id, service_id, target_type, target_id, duration, err) ==
    LET o == EditService(user_id, service_id, target_type, target_id, duration, err)
    IN /\ resp' = Response("edit_service", o.status)
       /\ services' = o.services
       /\ UNCHANGED <<users, clients, providers, businesses, bookings, nextBookingId, now, reqs, extVars>>

\* delete_service: the target is read from the stored row; status 0 is the
\* panic of expect() on a failed commit, which sends no response
DeleteService(user_id, service_id, err) ==
    IF err = "begin" THEN ServiceOutcome(500, services, nextServiceId)
    ELSE IF err = "fetch" THEN ServiceOutcome(500, services, nextServiceId)
    ELSE LET rows == {s \in services : s.id = service_id}
         IN IF rows = {} THEN ServiceOutcome(404, services, nextServiceId)
            ELSE LET s == CHOOSE x \in rows : TRUE
                 IN IF s.target_type \notin {"provider", "business"}
                       THEN ServiceOutcome(400, services, nextServiceId)
                    ELSE IF err = "check" THEN ServiceOutcome(500, services, nextServiceId)
                    ELSE IF OwnedTarget(user_id, s.target_type, s.target_id) = {}
                       THEN ServiceOutcome(403, services, nextServiceId)
                    ELSE IF err = "delete" THEN ServiceOutcome(500, services, nextServiceId)
                    ELSE IF err = "commit" THEN ServiceOutcome(0, services, nextServiceId)
                    ELSE ServiceOutcome(200, services \ rows, nextServiceId)

delete_service(user_id, service_id, err) ==
    LET o == DeleteService(user_id, service_id, err)
    IN /\ resp' = Response("delete_service", o.status)
       /\ services' = o.services
       /\ UNCHANGED <<users, clients, providers, businesses, bookings, nextBookingId, now, reqs, extVars>>

CreateServiceErrors == {"begin", "check", "insert", "commit"}
EditServiceErrors == {"begin", "check", "update", "commit"}
DeleteServiceErrors == {"begin", "fetch", "check", "delete", "commit"}

\* <<user_id, <<target_type, target_id>>, duration, err>>
CreateServiceRequests ==
    Callers \X ServiceTargetInputs \X DurationInputs \X ({"none"} \cup CreateServiceErrors)
\* <<user_id, service_id, <<target_type, target_id>>, duration, err>>
EditServiceRequests ==
    Callers \X CatalogueIds \X ServiceTargetInputs \X EditDurationInputs \X ({"none"} \cup EditServiceErrors)
\* <<user_id, service_id, err>>
DeleteServiceRequests ==
    Callers \X CatalogueIds \X ({"none"} \cup DeleteServiceErrors)

NextSvc ==
    \/ \E q \in CreateServiceRequests : create_service(q[1], q[2][1], q[2][2], q[3], q[4])
    \/ \E q \in EditServiceRequests : edit_service(q[1], q[2], q[3][1], q[3][2], q[4], q[5])
    \/ \E q \in DeleteServiceRequests : delete_service(q[1], q[2], q[3])

SpecSvc == InitBook /\ [][NextSvc]_vars

----------------------------------------------------------------------------
(* SpecDur: create_booking with a store that may also fail the duration    *)
(* lookup, which the handler answers with the default, while the owner     *)
(* edits the duration of the catalogue service.                            *)

\* <<user_id, <<target_type, target_id>>, service_id, scheduled_time, err>>
DurationRequests ==
    (Callers \X TargetInputs \X ServiceIdInputs \X TimeInputs \X {"none"})
    \cup (Callers \X StoredTargets \X ServiceIdInputs \X TimeInputs \X {"duration"})

NextDur ==
    \/ \E r \in DurationRequests :
          create_booking(r[1], r[2][1], r[2][2], r[3], r[4], r[5])
    \/ \E u \in Callers, d \in EditDurationInputs :
          edit_service(u, 1, "provider", 1, d, "none")
    \/ Tick

SpecDur == InitBook /\ [][NextDur]_vars

----------------------------------------------------------------------------
(* SpecAvail: update_provider_availability and update_bulk_availability,  *)
(* one request at a time, over the store of InitBook.                      *)

MaxItems == 2

\* what a transaction that is rolled back, or dropped without a commit,
\* leaves visible if its statements had been run on the pool directly
Rollback_Autocommit(before, working) == working

\* tx.rollback(), and the drop of a transaction that was not committed:
\* the table is as it was at pool.begin()
Rollback(before, working) == before

DayInputs == {"mon", "tue"}
\* AvailabilityItem / ProviderAvailabilty without the provider: the day and
\* the values stored for it
AvailabilityItems ==
    [day : DayInputs, is_available : BOOLEAN, start_time : {"09:00"}, end_time : {"17:00"}]
\* BulkAvailabilityUpdate.availability: a list of items
RECURSIVE ItemLists(_)
ItemLists(n) ==
    IF n = 0 THEN {<<>>}
    ELSE ItemLists(n - 1) \cup {Append(l, i) : l \in {x \in ItemLists(n - 1) : Len(x) = n - 1}, i \in AvailabilityItems}

\* the lookup that never finds the row of the day
ExistingAvailability_NoRow(av, provider_id, day) == {}

\* SELECT id FROM provider_availability WHERE provider_id = $1 AND day = $2
ExistingAvailability(av, provider_id, day) ==
    {a \in av : a.provider_id = provider_id /\ a.day = day}

\* INSERT INTO provider_availability (provider_id, is_available, day,
\*   start_time, end_time) VALUES (...)
InsertAvailability(av, provider_id, item) ==
    av \cup {[id |-> NextId(av), provider_id |-> provider_id, day |-> item.day,
              is_available |-> item.is_available,
              start_time |-> item.start_time, end_time |-> item.end_time]}

\* UPDATE provider_availability SET is_available = $1, start_time = $2,
\*   end_time = $3 WHERE provider_id = $4 AND day = $5
UpdateAvailabilityByDay(av, provider_id, item) ==
    {IF a.provider_id = provider_id /\ a.day = item.day
        THEN [a EXCEPT !.is_available = item.is_available,
                       !.start_time = item.start_time, !.end_time = item.end_time]
        ELSE a : a \in av}

\* UPDATE provider_availability SET ... WHERE id = $4 AND provider_id = $5
UpdateAvailabilityById(av, id, provider_id, item) ==
    {IF a.id = id /\ a.provider_id = provider_id
        THEN [a EXCEPT !.is_available = item.is_available,
                       !.start_time = item.start_time, !.end_time = item.end_time]
        ELSE a : a \in av}

AvailabilityOutcome(status, av, updated, created) ==
    [status |-> status, availability |-> av, updated |-> updated, created |-> created]

AvailabilityErrors == {"provider", "select", "write"}

\* update_provider_availability: the caller's user id is compared with the
\* provider id of the payload; the statements run on the pool
UpdateProviderAvailability(user_id, provider_id, item, err) ==
    IF provider_id # user_id THEN AvailabilityOutcome(403, availability, 0, 0)
    ELSE IF err = "provider" THEN AvailabilityOutcome(500, availability, 0, 0)
    ELSE IF ~\E p \in providers : p.id = provider_id
       THEN AvailabilityOutcome(404, availability, 0, 0)
    ELSE IF err = "select" \/ err = "write" THEN AvailabilityOutcome(500, availability, 0, 0)
    ELSE IF ExistingAvailability(availability, provider_id, item.day) # {}
       THEN AvailabilityOutcome(200, UpdateAvailabilityByDay(availability, provider_id, item), 1, 0)
    ELSE AvailabilityOutcome(201, InsertAvailability(availability, provider_id, item), 0, 1)

update_provider_availability(user_id, provider_id, item, err) ==
    LET o == UpdateProviderAvailability(user_id, provider_id, item, err)
    IN /\ resp' = [op |-> "update_provider_availability", status |-> o.status, updated |-> o.updated, created |-> o.created]
       /\ availability' = o.availability
       /\ UNCHANGED <<users, clients, providers, businesses, services, bookings, nextBookingId, now, reqs, messages, interactions, reviews, favorites, admins, categories, nextCategoryId, nextServiceId, posts, attachments, password_resets, passwords, nextToken>>

\* The loop of update_bulk_availability from item i on, inside the
\* transaction: err = <<statement, i>> names the statement of item i that
\* fails.  The lookup sees the rows the earlier items wrote.
RECURSIVE BulkItems(_, _, _, _, _, _, _)
BulkItems(av, provider_id, items, i, err, updated, created) ==
    IF i > Len(items) THEN [failed |-> FALSE, availability |-> av, updated |-> updated, created |-> created]
    ELSE IF err = <<"select", i>> \/ err = <<"write", i>>
       THEN [failed |-> TRUE, availability |-> av, updated |-> updated, created |-> created]
    ELSE LET rows == ExistingAvailability(av, provider_id, items[i].day)
         IN IF rows # {}
               THEN BulkItems(UpdateAvailabilityById(av, (CHOOSE r \in rows : TRUE).id, provider_id, items[i]),
                              provider_id, items, i + 1, err, updated + 1, created)
               ELSE BulkItems(InsertAvailability(av, provider_id, items[i]),
                              provider_id, items, i + 1, err, updated, created + 1)

\* update_bulk_availability: the provider row of the caller, then one
\* transaction around the loop
UpdateBulkAvailability(user_id, items, err) ==
    LET mine == {p \in providers : p.user_id = user_id}
    IN IF err = <<"provider", 0>> THEN AvailabilityOutcome(500, availability, 0, 0)
       ELSE IF mine = {} THEN AvailabilityOutcome(404, availability, 0, 0)
       ELSE IF err = <<"begin", 0>> THEN AvailabilityOutcome(500, availability, 0, 0)
       ELSE LET tx == BulkItems(availability, (CHOOSE p \in mine : TRUE).id, items, 1, err, 0, 0)
            IN IF tx.failed \/ err = <<"commit", 0>>
                  THEN AvailabilityOutcome(500, Rollback(availability, tx.availability), 0, 0)
                  ELSE AvailabilityOutcome(200, tx.availability, tx.updated, tx.created)

update_bulk_availability(user_id, items, err) ==
    LET o == UpdateBulkAvailability(user_id, items, err)
    IN /\ resp' = [op |-> "update_bulk_availability", status |-> o.status, updated |-> o.updated, created |-> o.created]
       /\ availability' = o.availability
       /\ UNCHANGED <<users, clients, providers, businesses, services, bookings, nextBookingId, now, reqs, messages, interactions, reviews, favorites, admins, categories, nextCategoryId, nextServiceId, posts, attachments, password_resets, passwords, nextToken>>

\* the statements of a bulk request that the store can fail
BulkErrors ==
    {<<"provider", 0>>, <<"begin", 0>>, <<"commit", 0>>}
    \cup ({"select", "write"} \X (1..MaxItems))

\* <<user_id, provider_id, item, err>>
AvailabilityRequests ==
    (Callers \X {1, 2} \X AvailabilityItems \X {"none"})
    \cup ({1} \X {1} \X AvailabilityItems \X AvailabilityErrors)
\* <<user_id, items, err>>
BulkRequests ==
    (Callers \X ItemLists(MaxItems) \X {<<"none", 0>>})
    \cup {q \in {1} \X ItemLists(MaxItems) \X BulkErrors : q[3][2] <= Len(q[2])}

NextAvail ==
    \/ \E q \in AvailabilityRequests : update_provider_availability(q[1], q[2], q[3], q[4])
    \/ \E q \in BulkRequests : update_bulk_availability(q[1], q[2], q[3])

SpecAvail == InitBook /\ [][NextAvail]_vars

----------------------------------------------------------------------------
(* SpecTx: the handlers that write more than one row inside a transaction: *)
(* onboarding, create_parent_category, update_post_and_attachments and     *)
(* update_bulk_availability, over the store of InitAdmin with one post.    *)

\* "Too many attachments. Maximum is 5."
MaxAttachments == 5

\* UpdatePost.attachments: none, two, and six paths
AttachmentLists ==
    {<<>>, <<"f1", "f2">>, <<"f1", "f2", "f3", "f4", "f5", "f6">>}
\* UpdatePost.title (Option<String>): content is handled like title
TitleInputs == {None, Some("t2")}

\* UPDATE posts SET title = COALESCE($1, title), content = COALESCE($2, content)
\* WHERE id = $3
UpdatePost(ps, id, title, content) ==
    {IF p.id = id
        THEN [p EXCEPT !.title = UnwrapOr(title, p.title),
                       !.content = UnwrapOr(content, p.content)]
        ELSE p : p \in ps}

\* DELETE FROM attachments WHERE post_id = $1
DeleteAttachments(as, id) == {a \in as : a.post_id # id}

\* the id the sequence of attachments gives the next row
NextAttachmentId(as) ==
    IF as = {} THEN 1 ELSE 1 + (CHOOSE n \in {a.id : a \in as} : \A a \in as : a.id <= n)

\* INSERT INTO attachments (post_id, file_path, file_type) VALUES ($1, $2, 'image')
InsertAttachment(as, id, path) ==
    as \cup {[id |-> NextAttachmentId(as), post_id |-> id, file_path |-> path]}

\* the insert loop from path i on; err = <<"insert", i>> fails the i-th insert
RECURSIVE InsertAttachments(_, _, _, _, _)
InsertAttachments(as, id, paths, i, err) ==
    IF i > Len(paths) THEN [failed |-> FALSE, attachments |-> as]
    ELSE IF err = <<"insert", i>> THEN [failed |-> TRUE, attachments |-> as]
    ELSE InsertAttachments(InsertAttachment(as, id, paths[i]), id, paths, i + 1, err)

PostOutcome(status, ps, as) == [status |-> status, posts |-> ps, attachments |-> as]

\* update_post_and_attachments: one transaction around the update of the
\* post, the delete of its attachments, the limit check and the inserts
UpdatePostAndAttachments(id, title, content, paths, err) ==
    IF err = <<"begin", 0>> THEN PostOutcome(500, posts, attachments)
    ELSE IF err = <<"update", 0>> THEN PostOutcome(500, posts, attachments)
    ELSE LET updated == UpdatePost(posts, id, title, content)
             deleted == DeleteAttachments(attachments, id)
             inserted == InsertAttachments(deleted, id, paths, 1, err)
         IN IF err = <<"delete", 0>>
               THEN PostOutcome(500, Rollback(posts, updated), attachments)
            ELSE IF Len(paths) > MaxAttachments
               THEN PostOutcome(400, Rollback(posts, updated), Rollback(attachments, deleted))
            ELSE IF inserted.failed \/ err = <<"commit", 0>>
               THEN PostOutcome(500, Rollback(posts, updated), Rollback(attachments, inserted.attachments))
            ELSE PostOutcome(200, updated, inserted.attachments)

update_post_and_attachments(id, title, content, paths, err) ==
    LET o == UpdatePostAndAttachments(id, title, content, paths, err)
    IN /\ resp' = Response("update_post_and_attachments", o.status)
       /\ posts' = o.posts
       /\ attachments' = o.attachments
       /\ UNCHANGED <<users, clients, providers, businesses, services, bookings, nextBookingId, now, reqs, messages, interactions, reviews, favorites, admins, categories, nextCategoryId, nextServiceId, availability, password_resets, passwords, nextToken>>

PostErrors ==
    {<<"begin", 0>>, <<"update", 0>>, <<"delete", 0>>, <<"commit", 0>>, <<"insert", 1>>, <<"insert", 2>>}

\* <<id, title, paths, err>> for the stored post
PostRequests ==
    ({1} \X TitleInputs \X AttachmentLists \X {<<"none", 0>>})
    \cup {q \in {1} \X TitleInputs \X AttachmentLists \X PostErrors : q[4][2] <= Len(q[3])}

\* the bulk requests of SpecTx: <<user_id, items, err>>
TxBulkRequests ==
    {q \in BulkRequests :
        /\ q[1] = 1
        /\ \A i \in 1..Len(q[2]) :
              /\ q[2][i].day = (IF i = 1 THEN "mon" ELSE "tue")
              /\ q[2][i].is_available = (i = 1)
        /\ q[3] \in {<<"none", 0>>, <<"write", 2>>, <<"select", 1>>, <<"commit", 0>>}}

\* <<sub_name, parent_name, err>> of create_parent_category, sent by administrator 1
TxCategoryRequests ==
    {"a"} \X {"b"} \X {"none", "begin", "select", "insert_parent", "insert", "commit"}

\* <<user_id, payload_ok, data, err>> of onboard_service_provider
TxOnboardRequests ==
    (Callers \X BOOLEAN \X {"a"} \X {"none"}) \cup ({1} \X {TRUE} \X {"b"} \X OnboardErrors)

\* The store of InitAdmin after create_posts has stored one post
InitTx ==
    /\ users = {[id |-> 1, username |-> "u1", email |-> "e1"],
                [id |-> 2, username |-> "u2", email |-> "e2"]}
    /\ providers = {[id |-> 1, user_id |-> 1, data |-> "registered"]}
    /\ businesses = {[id |-> 1, user_id |-> 2, data |-> "registered"]}
    /\ clients = {}
    /\ services = {[id |-> 1, target_type |-> "provider", target_id |-> 1,
                    duration |-> Some(30)]}
    /\ bookings = {}
    /\ nextBookingId = 1
    /\ now = 0
    /\ resp = Response("none", 0)
    /\ reqs = [p \in Procs |-> [pc |-> "idle"]]
    /\ messages = {}
    /\ interactions = {}
    /\ reviews = {}
    /\ favorites = {}
    /\ admins = {[id |-> 1, is_super_admin |-> Some(TRUE)]}
    /\ categories = {}
    /\ nextCategoryId = 1
    /\ nextServiceId = 2
    /\ availability = {}
    /\ posts = {[id |-> 1, title |-> "t1", content |-> "c1"]}
    /\ attachments = {}
    /\ password_resets = {}
    /\ passwords = {[user_id |-> u, password |-> <<"argon2", "registered">>] : u \in {1, 2}}
    /\ nextToken = 1

NextTx ==
    \/ \E q \in TxOnboardRequests : onboard_service_provider(q[1], q[2], q[3], q[4])
    \/ \E q \in TxCategoryRequests : create_parent_category(<<"valid", 1>>, q[1], q[2], q[3])
    \/ \E q \in PostRequests : update_post_and_attachments(q[1], q[2], None, q[3], q[4])
    \/ \E q \in TxBulkRequests : update_bulk_availability(q[1], q[2], q[3])

SpecTx == InitTx /\ [][NextTx]_vars

----------------------------------------------------------------------------
(* forgot_password and reset_password (SpecReset).  The clock of this     *)
(* specification counts quarter hours.                                     *)

\* at most MaxTokens reset tokens are issued
MaxTokens == 2
\* the clock of SpecReset stops at MaxClock quarter hours
MaxClock == 2
\* Duration::minutes(15), in quarter hours
TokenTtl == 1

\* ForgotPasswordRequest.email: the two stored users and an unknown address
EmailInputs == {"e1", "e2", "nobody"}
\* ResetPasswordRequest.password and confirm_password
PasswordInputs == {"p1", "p2"}
\* ResetPasswordRequest.token: the tokens forgot_password can issue, and one
\* it never issues
TokenInputs == 1..(MaxTokens + 1)

\* Argon2::default().hash_password(password, salt): the stored string
\* verifies exactly the password it was made from
HashPassword(password) == <<"argon2", password>>

\* SELECT id FROM users WHERE email = $1
UserByEmail(email) == {u \in users : u.email = email}

\* SELECT user_id, expires_at FROM password_resets WHERE token = $1
ResetRecord(prs, token) == {r \in prs : r.token = token}

\* UPDATE users SET password = $1 WHERE id = $2
UpdatePassword(pws, user_id, hashed_password) ==
    {IF p.user_id = user_id THEN [p EXCEPT !.password = hashed_password] ELSE p : p \in pws}

\* DELETE FROM password_resets where token = $1
DeleteToken(prs, token) == {r \in prs : r.token # token}

ForgotErrors == {"select", "insert"}
ResetErrors == {"select", "update", "delete"}

\* forgot_password as a function of the store and the request: the token is
\* a fresh Uuid, the result of the INSERT is discarded
ForgotPassword(email, err) ==
    IF err = "select"
       THEN [status |-> 500, token |-> None, password_resets |-> password_resets, nextToken |-> nextToken]
    ELSE IF UserByEmail(email) = {}
       THEN [status |-> 404, token |-> None, password_resets |-> password_resets, nextToken |-> nextToken]
    ELSE LET user == CHOOSE u \in UserByEmail(email) : TRUE
             token == nextToken
             expiry == now + TokenTtl
         IN [status |-> 200, token |-> Some(token),
             password_resets |-> IF err = "insert" THEN password_resets
                                 ELSE password_resets \cup {[user_id |-> user.id, token |-> token, expires_at |-> expiry]},
             nextToken |-> nextToken + 1]

forgot_password(email, err) ==
    LET o == ForgotPassword(email, err)
    IN /\ o.nextToken <= MaxTokens + 1
       /\ resp' = [op |-> "forgot_password", status |-> o.status, token |-> o.token]
       /\ password_resets' = o.password_resets
       /\ nextToken' = o.nextToken
       /\ UNCHANGED <<users, clients, providers, businesses, services, bookings, nextBookingId, now, reqs, messages, interactions, reviews, favorites, admins, categories, nextCategoryId, nextServiceId, availability, posts, attachments, passwords>>

\* reset_password as a function of the store and the request: status 0 is
\* the panic of the unwrap() on the token lookup, which sends no response;
\* the results of the UPDATE and of the DELETE are discarded
ResetPassword(token, password, confirm_password, err) ==
    IF password # confirm_password
       THEN [status |-> 400, passwords |-> passwords, password_resets |-> password_resets]
    ELSE IF err = "select"
       THEN [status |-> 0, passwords |-> passwords, password_resets |-> password_resets]
    ELSE IF ResetRecord(password_resets, token) = {}
       THEN [status |-> 404, passwords |-> passwords, password_resets |-> password_resets]
    ELSE LET reset == CHOOSE r \in ResetRecord(password_resets, token) : TRUE
         IN IF reset.expires_at < now
               THEN [status |-> 401, passwords |-> passwords, password_resets |-> password_resets]
            ELSE [status |-> 200,
                  passwords |-> IF err = "update" THEN passwords
                                ELSE UpdatePassword(passwords, reset.user_id, HashPassword(password)),
                  password_resets |-> IF err = "delete" THEN password_resets
                                      ELSE DeleteToken(password_resets, token)]

reset_password(token, password, confirm_password, err) ==
    LET o == ResetPassword(token, password, confirm_password, err)
    IN /\ resp' = Response("reset_password", o.status)
       /\ passwords' = o.passwords
       /\ password_resets' = o.password_resets
       /\ UNCHANGED <<users, clients, providers, businesses, services, bookings, nextBookingId, now, reqs, messages, interactions, reviews, favorites, admins, categories, nextCategoryId, nextServiceId, availability, posts, attachments, nextToken>>

\* Utc::now() advances by a quarter hour
Elapse ==
    /\ now < MaxClock
    /\ now' = now + 1
    /\ UNCHANGED <<extVars, users, clients, providers, businesses, services, bookings, nextBookingId, resp, reqs>>

\* <<email, err>>
ForgotRequests == (EmailInputs \X {"none"}) \cup ({"e1"} \X ForgotErrors)

\* <<token, password, confirm_password, err>>: the store fails only for
\* requests whose passwords match
ResetRequests ==
    (TokenInputs \X PasswordInputs \X PasswordInputs \X {"none"})
    \cup {q \in TokenInputs \X PasswordInputs \X PasswordInputs \X ResetErrors : q[2] = q[3]}

NextReset ==
    \/ \E q \in ForgotRequests : forgot_password(q[1], q[2])
    \/ \E q \in ResetRequests : reset_password(q[1], q[2], q[3], q[4])
    \/ Elapse

SpecReset == InitBook /\ [][NextReset]_vars

----------------------------------------------------------------------------
(* Claims about reviews (SpecReview) *)

\* C11: after any sequence of sequential review create requests at most one
\* review exists per (reviewer_id, target_type, target_id), a create for a
\* triple that already has a review being refused with 409 and inserting
\* nothing.  The formula is the invariant the refusal is there to keep.
C11_OneReviewPerTriple ==
    \A a \in reviews, b \in reviews :
       (/\ a.reviewer_id = b.reviewer_id
        /\ a.target_type = b.target_type
        /\ a.target_id = b.target_id)
       => a = b

\* The outcome of create_reviews for request r of ReviewRequests
ReviewOutcome(r) == CreateReviews(r[1], r[2][1], r[2][2], r[3], r[4], r[5])

\* user_id has an interaction row with the target a review request names
\* (the type as the handler normalises it)
HasInteraction(user_id, raw_target_type, target_id) ==
    \E i \in interactions :
       /\ i.user_id = user_id
       /\ Some(i.target_type) = ReviewTargetType(raw_target_type)
       /\ i.target_id = target_id

\* C12 as stated: a review create by a reviewer with no interaction row for
\* the target returns 403 and inserts nothing.
C12_NoInteractionGets403 ==
    [][\A r \in ReviewRequests :
          (/\ create_reviews(r[1], r[2][1], r[2][2], r[3], r[4], r[5])
           /\ ~HasInteraction(r[1], r[2][1], r[2][2]))
          => (resp'.status = 403 /\ reviews' = reviews)]_vars

\* C12 as amended: every stored review by reviewer r for a target has an
\* interaction row (r, target_type, target_id) that is not younger than the
\* review; every interaction row belongs to a message its user sent into
\* that target context and is of type message; a review create by a
\* reviewer with no such interaction inserts nothing, and returns 403 when
\* the comment is not empty, the target type is provider or business (or
\* service_provider), the target id is positive and names a stored row, and
\* the lookups succeed; otherwise 400 (payload), 404 (target missing or its
\* lookup failed) or 500 (interaction lookup failed).
C12_ReviewNeedsInteraction ==
    /\ \A v \in reviews :
          \E i \in interactions :
             /\ i.user_id = v.reviewer_id
             /\ i.target_type = v.target_type
             /\ i.target_id = v.target_id
             /\ i.created_at <= v.created_at
    /\ \A i \in interactions :
          /\ i.interaction_type = "message"
          /\ \E m \in messages :
                /\ m.sender_id = i.user_id
                /\ m.target_type = i.target_type
                /\ m.target_id = i.target_id
                /\ m.created_at = i.created_at
    /\ \A r \in ReviewRequests :
          ~HasInteraction(r[1], r[2][1], r[2][2])
          => LET o == ReviewOutcome(r)
             IN /\ o.reviews = reviews
                /\ o.status =
                     IF r[3] = "" \/ ReviewTargetType(r[2][1]) = None \/ r[2][2] <= 0
                        THEN 400
                     ELSE IF \/ r[5] = "target"
                             \/ ~TargetExists(UnwrapOr(ReviewTargetType(r[2][1]), ""), r[2][2])
                        THEN 404
                     ELSE IF r[5] = "interaction" THEN 500
                     ELSE 403

\* C12's case: a review is stored, and a create by a reviewer without an
\* interaction has just been answered 403
C12_Witness ==
    /\ resp = Response("create_reviews", 403)
    /\ reviews # {}
    /\ \E u \in Callers : \A i \in interactions : i.user_id # u

----------------------------------------------------------------------------
(* Claims about favorites (SpecFav) *)

\* the requests add_favorite accepts: a type that lowercases to provider or
\* business, a positive id
FavoriteTargets == {t \in TargetInputs : ToLowercase(t[1]) \in {"provider", "business"} /\ t[2] > 0}

\* C13: add_favorite is idempotent.  In every reachable state, a call for
\* (user_id, target_type, target_id) returns success and leaves exactly
\* one favorites row of that triple, with every row of another user or
\* another target as it was; a row the triple already had is that one row,
\* unchanged, whenever it was stored; and the same insert repeated on the
\* result changes nothing.  (Read for the triples the
\* handler accepts and a store that answers the insert; a failed insert
\* leaves the table as it was, so never a second row.)
C13_AddFavoriteIsIdempotent ==
    \A u \in Callers, t \in FavoriteTargets :
       LET target_type == ToLowercase(t[1])
           o == AddFavorite(u, t[1], t[2], "none")
           mine == FavoriteRows(favorites, u, target_type, t[2])
           others == favorites \ mine
       IN /\ o.status = 200
          /\ Cardinality(FavoriteRows(o.favorites, u, target_type, t[2])) = 1
          /\ Cardinality(mine) <= 1
          /\ mine \subseteq o.favorites
          /\ o.favorites \ FavoriteRows(o.favorites, u, target_type, t[2]) = others
          /\ InsertFavorite(o.favorites, u, target_type, t[2]) = o.favorites
          /\ Cardinality(FavoriteRows(AddFavorite(u, t[1], t[2], "insert").favorites, u, target_type, t[2])) <= 1

\* C13's case: the clock has moved past the time a favorite was stored, a
\* further add_favorite for it has been answered 200, and the favorites of
\* both users are stored
C13_Witness ==
    /\ resp = Response("add_favorite", 200)
    /\ now > 0
    /\ \A u \in Callers :
          \E f \in favorites : f.user_id = u /\ f.created_at < now
    /\ \A u \in Callers, t \in FavoriteTargets :
          AddFavorite(u, t[1], t[2], "none").favorites = favorites

----------------------------------------------------------------------------
(* Claims about messages (SpecMsg) *)

\* C14: unread_count(caller, target_type) is the number of unread messages
\* addressed to the caller's resolved target identity: when the only stored
\* message is one that another user B sent to A into the target context of
\* A's provider or business row, unread_count called by A returns 1, and
\* after A's mark_read with that message's id it returns 0.  (B names A as
\* receiver by A's user id or by the id of A's row.)
C14_UnreadCountScenario ==
    \A a \in Callers, tt \in {"provider", "business"}, m \in messages :
       LET rid == GetTargetId(a, tt, "none")
           marked == MarkMessagesAsRead(messages, now, a, {m.id}, tt, m.target_id, m.sender_id, "none")
       IN (/\ rid # None
           /\ messages = {m}
           /\ ~m.is_read
           /\ m.sender_id # a
           /\ m.target_type = tt
           /\ Some(m.target_id) = rid
           /\ m.receiver_id \in {a} \cup rid)
          => /\ GetUnreadMessagesCount(messages, a, tt, "none") = [status |-> 200, unread_count |-> 1]
             /\ marked.status = 200
             /\ GetUnreadMessagesCount(marked.messages, a, tt, "none") = [status |-> 200, unread_count |-> 0]

\* C15: mark_read sets is_read = true and read_at = now exactly for the
\* messages whose id is in the given set, whose receiver is the caller's
\* resolved target identity and which are unread; every other message, one
\* already read (it keeps its first read_at), one outside the id set, one of
\* another receiver, stays as it was; and the same call repeated at any
\* later time answers as the first did and changes nothing.
C15_MarkReadIsExactAndIdempotent ==
    \A r \in MarkReadRequests :
       LET o == MarkMessagesAsRead(messages, now, r[1], r[2], r[3][1], r[3][2], r[3][3], r[4])
           table == CASE ToLowercase(r[3][1]) = "provider" -> providers
                      [] ToLowercase(r[3][1]) = "business" -> businesses
                      [] OTHER -> {}
           owned == {x \in table : x.user_id = r[1]}
       IN /\ Cardinality(o.messages) = Cardinality(messages)
          /\ \A m \in messages :
                IF /\ o.status = 200
                   /\ m.id \in r[2]
                   /\ \E x \in owned : x.id = m.receiver_id
                   /\ ~m.is_read
                THEN [m EXCEPT !.is_read = TRUE, !.read_at = Some(now)] \in o.messages
                ELSE m \in o.messages
          /\ (r[4] = "none" /\ r[2] # {} /\ owned # {} /\ r[3][2] > 0 /\ r[3][3] > 0)
             => o.status = 200
          /\ \A later \in now..MaxTime :
                MarkMessagesAsRead(o.messages, later, r[1], r[2], r[3][1], r[3][2], r[3][3], r[4]) = o

\* C15's case: a mark_messages_as_read has been answered 200 while a message
\* read at an earlier time and an unread message are stored
C15_Witness ==
    /\ resp = Response("mark_messages_as_read", 200)
    /\ \E m \in messages : m.is_read /\ m.read_at # Some(now)
    /\ \E m \in messages : ~m.is_read

----------------------------------------------------------------------------
(* Claims about the admin routes (SpecAdmin) *)

\* the subject of header has an admins row whose administrator flag is set
IsAdministrator(header) ==
    /\ header[1] = "valid"
    /\ \E a \in admins : a.id = header[2] /\ a.is_super_admin = Some(TRUE)

\* the response to request q of AdminRequests and the store it leaves
AdminOutcome(q) == AdminRoute(q[2][1], q[1], q[2][2], q[2][3], q[3])

\* C16: on an admin route a caller with a valid token whose user has no
\* administrator flag is answered 403, a store error during the
\* administrator lookup is answered 500 (not 403), and in neither case
\* does the admin handler run.
C16_NonAdmin403LookupError500 ==
    [][\A q \in AdminRequests :
          (/\ admin_request(q[2][1], q[1], q[2][2], q[2][3], q[3])
           /\ q[1][1] = "valid")
          => /\ (q[3] # "admin_check" /\ ~IsAdministrator(q[1]))
                   => (resp'.status = 403 /\ resp'.steps = <<"current_user", "admin_check">>)
             /\ q[3] = "admin_check"
                   => (resp'.status = 500 /\ resp'.steps = <<"current_user", "admin_check">>)]_vars

\* C17: identity resolution precedes the admin check.  In every reachable
\* state, a request to an admin route whose bearer token is missing,
\* malformed or unverifiable is answered 401 after the CurrentUser step
\* alone, with no administrator lookup and no change of the store; a request
\* that goes through the administrator lookup has gone through CurrentUser
\* first; and a request that changes users or categories carries a verified
\* token whose subject has the administrator flag set, and its lookup did
\* not fail.
C17_IdentityBeforeAdminCheck ==
    \A q \in AdminRequests :
       LET r == AdminOutcome(q)
       IN /\ q[1][1] # "valid"
               => (r.steps = <<"current_user">> /\ r.out = AdminUnchanged(401))
          /\ r.steps[1] = "current_user"
          /\ Len(r.steps) >= 2 => (q[1][1] = "valid" /\ r.steps[2] = "admin_check")
          /\ Len(r.steps) = 3 => (IsAdministrator(q[1]) /\ q[3] # "admin_check")
          /\ (r.out.users # users \/ r.out.categories # categories
                \/ r.out.nextCategoryId # nextCategoryId)
               => (Len(r.steps) = 3 /\ IsAdministrator(q[1]) /\ q[3] # "admin_check")

\* C17's case: an administrator has created a category and deleted a user,
\* and the last request, without a verifiable token, was answered 401
\* before any administrator lookup.
C17_Witness ==
    /\ categories # {}
    /\ Cardinality(users) < 2
    /\ resp.status = 401
    /\ resp.steps = <<"current_user">>

----------------------------------------------------------------------------
(* Claims about the service catalogue (SpecSvc) *)

\* (target_type, target_id) names a provider or business row that exists
\* and is not owned by user_id
ForeignTarget(user_id, target_type, target_id) ==
    \/ target_type = "provider" /\ \E p \in providers : p.id = target_id /\ p.user_id # user_id
    \/ target_type = "business" /\ \E b \in businesses : b.id = target_id /\ b.user_id # user_id

\* the stored service service_id belongs to a row not owned by user_id
ForeignService(user_id, service_id) ==
    \E s \in services : s.id = service_id /\ ForeignTarget(user_id, s.target_type, s.target_id)

\* the services rows that ss and tt do not share: created, deleted, or
\* modified (old and new version)
ChangedServices(ss, tt) == (ss \ tt) \cup (tt \ ss)

----------------------------------------------------------------------------
(* Claims about the aggregate rating (SpecAgg) *)

\* h is the mean of the ratings of the non-empty set rows, in hundredths,
\* rounded to 2 decimals: no hundredth is nearer to the mean
IsRoundedMean(h, rows) ==
    LET d == 100 * SumRatings(rows) - h * Cardinality(rows)
    IN 2 * d <= Cardinality(rows) /\ 2 * d > -Cardinality(rows)

\* C19: aggregate(target_type, target_id), for a valid request the store
\* answers, returns review_count equal to the number of stored reviews of
\* the target and average_rating equal to their mean rounded to 2 decimals
\* (ratings [4,5] give 4.5 and 2); for a target with no reviews it returns
\* a zero-valued aggregate (average_rating 0, review_count 0), not an error
\* and not an empty result.
C19_AggregateOfTarget ==
    [][\A q \in AggRequests :
          (/\ get_review_agg_by_id(q[1], q[2], q[3])
           /\ ToLowercase(q[1]) \in {"provider", "business"} /\ q[2] > 0 /\ q[3] = "none")
          => LET rows == ReviewsOf(reviews, ToLowercase(q[1]), q[2])
             IN /\ resp'.status = 200
                /\ \E a \in resp'.aggregated_rating :
                      /\ a.review_count = Cardinality(rows)
                      /\ IF rows = {} THEN a.average_rating = 0
                         ELSE IsRoundedMean(a.average_rating, rows)
                      /\ ({r.rating : r \in rows} = {4, 5} /\ Cardinality(rows) = 2)
                            => (a.average_rating = 450 /\ a.review_count = 2)]_vars

----------------------------------------------------------------------------
(* Claims about validation responses (SpecAuth, and every other spec) *)

\* the tables of the store
StoreTables ==
    <<users, clients, providers, businesses, services, bookings, messages,
      interactions, reviews, favorites, admins, categories>>

\* C20: validation and existence checks precede every mutating statement:
\* a request that ends in a 400 response (register with a role outside
\* client/provider/business, create_booking with an unknown target or an
\* invalid service_id, send_message with empty content, ...) leaves every
\* table of the store exactly as it was before the request.
C20_BadRequestLeavesStore ==
    [][resp'.status = 400 => UNCHANGED StoreTables]_vars

----------------------------------------------------------------------------
(* Further claims about the booking handlers (Spec) *)

\* C21: update_booking reports success (200) only when a booking with the
\* given id exists for the given (target_type, target_id); when no such
\* booking exists (unknown id, or an id that belongs to a different target)
\* it does not report success and no booking is modified.
C21_SuccessOnlyForExistingBooking ==
    [][\A r \in UpdateRequests :
          update_booking(r[1], r[2][1], r[2][2], r[3], r[4], r[5])
          => /\ resp'.status = 200
                   => \E b \in bookings : /\ b.id = r[1]
                                          /\ b.target_type = ToLowercase(r[2][1])
                                          /\ b.target_id = r[2][2]
             /\ (~\E b \in bookings : /\ b.id = r[1]
                                      /\ b.target_type = ToLowercase(r[2][1])
                                      /\ b.target_id = r[2][2])
                   => bookings' = bookings]_vars

\* the service a stored booking names: same id, same (target_type, target_id)
ServiceOfBooking(b) ==
    {s \in services : /\ Some(s.id) = b.service_id
                      /\ s.target_type = b.target_type
                      /\ s.target_id = b.target_id}

\* C22: whenever create_booking stores a booking with a service_id, a
\* service with that id and the booking's (target_type, target_id) existed
\* at the time of the request and the stored duration is that service's
\* duration (60 when the service has none or when no service_id was given);
\* a service_id that does not exist or belongs to another target yields 400
\* and no insert.
C22_DurationFromService ==
    [][\A r \in DurationRequests :
          create_booking(r[1], r[2][1], r[2][2], r[3], r[4], r[5])
          => /\ \A b \in bookings' \ bookings :
                   IF b.service_id = None THEN b.duration = 60
                   ELSE \E s \in ServiceOfBooking(b) :
                           b.duration = UnwrapOr(s.duration, 60)
             /\ (r[3] # None /\ ~ServiceExists(r[3], ToLowercase(r[2][1]), r[2][2]))
                   => (resp'.status = 400 /\ bookings' = bookings)]_vars

----------------------------------------------------------------------------
(* Claims about categories (SpecAdmin) *)

\* the top-level categories (parent_id NULL) of table cs with that name
TopLevel(cs, name) == {c \in cs : c.name = name /\ c.parent_id = None}

\* C23: create_parent_category(parent_name, child_name) reuses an existing
\* top-level category (parent_id NULL) with that name and inserts a new
\* parent only when none exists: a successful call adds no top-level
\* category of that name when one is stored and exactly one when none is,
\* and the child it inserts points to a top-level category of that name.
C23_ParentIsReused ==
    [][\A q \in AdminRequests :
          (/\ q[2][1] = "create_parent_category"
           /\ create_parent_category(q[1], q[2][2], q[2][3], q[3])
           /\ resp'.status = 201)
          => LET before == TopLevel(categories, q[2][3])
                 after == TopLevel(categories', q[2][3])
                 children == {c \in categories' \ categories : c.parent_id # None}
             IN /\ before # {} => after = before
                /\ before = {} => Cardinality(after) = 1
                /\ Cardinality(children) = 1
                /\ \A c \in children : c.name = q[2][2]
                /\ \A c \in children : \E p \in after : c.parent_id = Some(p.id)]_vars

----------------------------------------------------------------------------
(* Claims about provider availability (SpecAvail) *)

\* table av holds at most one row per (provider_id, day)
OneRowPerDay(av) ==
    \A a, b \in av : (a.provider_id = b.provider_id /\ a.day = b.day) => a = b

\* the last item of the list for that day
LastItem(items, day) ==
    items[CHOOSE i \in 1..Len(items) :
             /\ items[i].day = day
             /\ \A j \in (i + 1)..Len(items) : items[j].day # day]

\* table av holds exactly one row for (provider_id, item.day), with the
\* values of the item
CarriesItem(av, provider_id, item) ==
    /\ \E a \in av : a.provider_id = provider_id /\ a.day = item.day
    /\ \A a \in av : (a.provider_id = provider_id /\ a.day = item.day)
          => /\ a.is_available = item.is_available
             /\ a.start_time = item.start_time
             /\ a.end_time = item.end_time

\* C30: after any sequence of sequential update_provider_availability and
\* update_bulk_availability requests, including a bulk payload that names
\* the same day more than once, provider_availability holds at most one
\* row per (provider_id, day); a request that succeeds leaves, for each day
\* it names, the row of the day with the values of the last item applied
\* for that day, and leaves the rows of every other day as they were.
C30_OneRowPerProviderDay ==
    /\ OneRowPerDay(availability)
    /\ \A q \in AvailabilityRequests :
          LET o == UpdateProviderAvailability(q[1], q[2], q[3], q[4])
          IN /\ OneRowPerDay(o.availability)
             /\ o.status \in {200, 201}
                   => /\ CarriesItem(o.availability, q[2], q[3])
                      /\ \A a \in availability :
                            (a.provider_id # q[2] \/ a.day # q[3].day) => a \in o.availability
             /\ o.status \notin {200, 201} => o.availability = availability
    /\ \A q \in BulkRequests :
          LET o == UpdateBulkAvailability(q[1], q[2], q[3])
              days == {q[2][i].day : i \in 1..Len(q[2])}
          IN /\ OneRowPerDay(o.availability)
             /\ o.status = 200
                   => /\ \A p \in providers : p.user_id = q[1]
                            => \A d \in days : CarriesItem(o.availability, p.id, LastItem(q[2], d))
                      /\ \A a \in availability : a.day \notin days => a \in o.availability
                      /\ {a.day : a \in o.availability} = {a.day : a \in availability} \cup days
             /\ o.status # 200 => o.availability = availability

\* C30's case: a bulk request that named the same day twice on an empty
\* table has created the row with its first item and updated it with its
\* second
C30_Witness ==
    /\ resp.op = "update_bulk_availability"
    /\ resp.status = 200
    /\ resp.created = 1
    /\ resp.updated = 1
    /\ Cardinality(availability) = 1

----------------------------------------------------------------------------
(* Claims about the transactional handlers (SpecTx) *)

\* the file paths stored for post id, and how many rows hold them
AttachmentsOf(as, id) == {a \in as : a.post_id = id}

\* C24: each multi-statement write is atomic.  For every onboarding,
\* create_parent_category, update_post_and_attachments and
\* update_bulk_availability request, in every reachable state: if a
\* statement of the group fails or the request is rejected part-way (more
\* than 5 attachments after the post update and the attachment delete),
\* every table is as it was before the request; if the request succeeds,
\* all writes of the group are there: the profile row is updated; parent
\* and child category are both stored; the post carries the new title and
\* exactly the attachments of the payload; each availability item is stored.
C24_MultiStatementWritesAreAtomic ==
    /\ \A q \in TxOnboardRequests :
          LET o == OnboardServiceProvider(q[1], q[2], q[3], q[4])
          IN IF o.status = 201
                THEN \A p \in o.providers : p.user_id = q[1] => p.data = q[3]
                ELSE o = AuthUnchanged(o.status)
    /\ \A q \in TxCategoryRequests :
          LET r == AdminRoute("create_parent_category", <<"valid", 1>>, q[1], q[2], q[3])
              new == r.out.categories \ categories
          IN IF r.out.status = 201
                THEN /\ categories \subseteq r.out.categories
                     /\ \E c \in new : /\ c.name = q[1]
                                       /\ \E p \in r.out.categories :
                                             /\ c.parent_id = Some(p.id)
                                             /\ p.name = q[2]
                                             /\ p.parent_id = None
                ELSE r.out = AdminUnchanged(r.out.status)
    /\ \A q \in PostRequests :
          LET o == UpdatePostAndAttachments(q[1], q[2], None, q[3], q[4])
              stored == AttachmentsOf(o.attachments, q[1])
          IN IF o.status = 200
                THEN /\ \A p \in o.posts : (p.id = q[1] /\ q[2] # None) => Some(p.title) = q[2]
                     /\ {a.file_path : a \in stored} = {q[3][i] : i \in 1..Len(q[3])}
                     /\ Cardinality(stored) = Len(q[3])
                ELSE /\ o.posts = posts
                     /\ o.attachments = attachments
    /\ \A q \in PostRequests :
          Len(q[3]) > MaxAttachments
             => UpdatePostAndAttachments(q[1], q[2], None, q[3], q[4]).status \in {400, 500}
    /\ \A q \in TxBulkRequests :
          LET o == UpdateBulkAvailability(q[1], q[2], q[3])
          IN IF o.status = 200
                THEN \A i \in 1..Len(q[2]) :
                        \E a \in o.availability :
                           /\ a.day = q[2][i].day
                           /\ a.is_available = q[2][i].is_available
                ELSE o.availability = availability

\* C24's case: the post has attachments and an edited title, an
\* availability row is stored, and the last request, with six attachments,
\* was rejected after its post update and attachment delete
C24_Witness ==
    /\ resp = Response("update_post_and_attachments", 400)
    /\ AttachmentsOf(attachments, 1) # {}
    /\ \E p \in posts : p.title = "t2"
    /\ availability # {}
    /\ categories # {}

----------------------------------------------------------------------------
(* Claims about the interaction log of send_message (SpecReview) *)

\* the rows an insert appended to a table
Appended(before, after) == after \ before

\* C25: for every send_message request in every reachable state: when the
\* message insert succeeds the answer is 201 and the message is stored, also
\* when the insert of the Interaction row fails (then no row is appended);
\* after a successful message insert without that failure exactly one
\* Interaction row (sender, target_type, target_id, 'message') is appended;
\* a failed (500) or rejected (400) send stores no message and appends no
\* interaction.
C25_InteractionOnlyAfterMessage ==
    \A r \in MessageRequests :
       LET o == SendMessage(r[1], r[2], r[3][1], r[3][2], 1, r[4])
           msgs == Appended(messages, o.messages)
           its == Appended(interactions, o.interactions)
           valid == r[2] # "" /\ ToLowercase(r[3][1]) \in {"provider", "business"}
       IN /\ messages \subseteq o.messages
          /\ interactions \subseteq o.interactions
          /\ o.status \in {201, 400, 500}
          /\ (valid /\ r[4] # "insert") <=> o.status = 201
          /\ o.status = 201 =>
                /\ \E m \in msgs : /\ msgs = {m}
                                   /\ m.sender_id = r[1]
                                   /\ m.content = r[2]
                                   /\ m.target_type = ToLowercase(r[3][1])
                                   /\ m.target_id = r[3][2]
                /\ r[4] = "interaction" => its = {}
                /\ r[4] # "interaction" =>
                      \E i \in its : /\ its = {i}
                                     /\ i.user_id = r[1]
                                     /\ i.target_type = ToLowercase(r[3][1])
                                     /\ i.target_id = r[3][2]
                                     /\ i.interaction_type = "message"
          /\ o.status # 201 => msgs = {} /\ its = {}

\* C25's case: a message is stored for a target for which its sender has no
\* interaction row (the interaction insert failed and the answer was 201),
\* while another send has logged its interaction
C25_Witness ==
    /\ resp = Response("send_message", 201)
    /\ \E m \in messages :
          \A i \in interactions :
             ~(i.user_id = m.sender_id /\ i.target_type = m.target_type /\ i.target_id = m.target_id)
    /\ interactions # {}

----------------------------------------------------------------------------
(* Claims about the category tree (SpecAdmin) *)

\* the rows of cs reached from the rows of S by following parent_id at most
\* n times
RECURSIVE ParentsWithin(_, _, _)
ParentsWithin(cs, S, n) ==
    IF n = 0 THEN {}
    ELSE LET ps == {p \in cs : \E c \in S : c.parent_id = Some(p.id)}
         IN ps \cup ParentsWithin(cs, ps, n - 1)

\* following parent_id from any category of cs never returns to that category
Acyclic(cs) == \A c \in cs : c \notin ParentsWithin(cs, {c}, Cardinality(cs))

\* the parent_id of the payload is absent or names a stored category
NamesStoredParent(parent_id) == parent_id = None \/ \E c \in categories : Some(c.id) = parent_id

----------------------------------------------------------------------------
(* Claims about password reset (SpecReset) *)

\* the stored token has expired: reset.expires_at < Utc::now()
Expired(token) == \E r \in ResetRecord(password_resets, token) : r.expires_at < now

\* C27: a reset token changes a password at most once in sequential use.
\* For every reset_password request whose passwords match: the password is
\* changed only for a stored token that has not expired, and after the 200
\* answer the token is no longer stored (so its next use is answered 404
\* and changes nothing); an unknown token is answered 404 and an expired
\* token 401, and a request whose passwords differ is answered 400, each
\* leaving passwords and tokens unchanged.
C27_TokenIsUsedOnce ==
    [][\A q \in ResetRequests :
          (reset_password(q[1], q[2], q[3], q[4]) /\ q[4] # "select")
          => LET stored == ResetRecord(password_resets, q[1]) # {}
             IN /\ q[2] # q[3]
                   => (resp'.status = 400 /\ UNCHANGED <<passwords, password_resets>>)
                /\ (q[2] = q[3] /\ ~stored)
                   => (resp'.status = 404 /\ UNCHANGED <<passwords, password_resets>>)
                /\ (q[2] = q[3] /\ stored /\ Expired(q[1]))
                   => (resp'.status = 401 /\ UNCHANGED <<passwords, password_resets>>)
                /\ passwords' # passwords
                   => (stored /\ ~Expired(q[1]) /\ resp'.status = 200)
                /\ resp'.status = 200
                   => ResetRecord(password_resets', q[1]) = {}]_vars

----------------------------------------------------------------------------
(* Claims about interleaved create_reviews requests (SpecRevConc) *)

\* the reviews of the (reviewer, target_type, target_id) of request r
ReviewsOfTriple(r) == ExistingReview(reviews, r.user_id, r.target_type, r.target_id)

\* the requests answered 201
Created == {p \in Procs : reqs[p].pc = "done" /\ reqs[p].status = 201}

\* C28: the duplicate check of create_reviews is a check followed later by
\* an insert, with nothing that holds the triple in between.  A request
\* that has passed the check is not stopped by a review another request
\* stores meanwhile: every request answered 201 has stored a row of its own
\* for its triple, so the triple holds at least as many reviews as requests
\* for it were answered 201; a request is answered 409 only when a review of
\* its triple is stored, and 201 only when an interaction of its reviewer
\* with its target is stored.  Two interleaved requests of one reviewer for
\* one target, both begun after the interaction exists, can therefore both
\* pass the check and both insert, leaving two reviews for the triple.
C28_CheckThenInsertIsNotAtomic ==
    /\ \A p \in Created :
          \E r \in ReviewsOfTriple(reqs[p]) :
             /\ r.id = reqs[p].review_id
             /\ r.rating = reqs[p].rating
    /\ \A p, q \in Created : p # q => reqs[p].review_id # reqs[q].review_id
    /\ \A p \in Created :
          Cardinality(ReviewsOfTriple(reqs[p]))
             >= Cardinality({q \in Created : /\ reqs[q].user_id = reqs[p].user_id
                                             /\ reqs[q].target_type = reqs[p].target_type
                                             /\ reqs[q].target_id = reqs[p].target_id})
    /\ \A p \in Procs :
          (reqs[p].pc = "done" /\ reqs[p].status = 409) => ReviewsOfTriple(reqs[p]) # {}
    /\ \A p \in Created :
          InteractionExists(reqs[p].user_id, reqs[p].target_type, reqs[p].target_id)

\* C28's case: both requests, of the same reviewer for the same target,
\* passed the duplicate check without a failed lookup and inserted; the
\* triple holds two reviews
C28_Witness ==
    /\ \A p \in Procs : /\ reqs[p].pc = "done"
                        /\ reqs[p].status = 201
                        /\ reqs[p].err = "none"
                        /\ reqs[p].user_id = 1
                        /\ reqs[p].target_type = "provider"
                        /\ reqs[p].target_id = 1
    /\ Cardinality(ExistingReview(reviews, 1, "provider", 1)) = 2

----------------------------------------------------------------------------
(* Claims about the read state of messages (SpecMsg) *)

\* row n is row m with at most its read state changed
SameMessage(m, n) ==
    /\ n.id = m.id
    /\ n.sender_id = m.sender_id
    /\ n.receiver_id = m.receiver_id
    /\ n.target_type = m.target_type
    /\ n.target_id = m.target_id
    /\ n.content = m.content
    /\ n.created_at = m.created_at

\* C29: message read state is monotonic.  In every reachable state read_at
\* is set exactly when is_read is true; and in every step of send_message,
\* mark_messages_as_read and get_unread_messages_count a read message stays
\* in the table as it is (is_read stays true, read_at and every other column
\* keep their values), and an unread message keeps its id, sender_id,
\* receiver_id, target, content and creation time.
C29_ReadStateIsMonotonic ==
    /\ [](\A m \in messages : m.is_read <=> m.read_at # None)
    /\ [][\A m \in messages :
             /\ m.is_read => m \in messages'
             /\ \E n \in messages' : SameMessage(m, n)]_vars

\* C29's case: two messages were read by two mark_messages_as_read requests
\* at different times; the later request left the earlier read_at in place
C29_Witness ==
    /\ resp = Response("mark_messages_as_read", 200)
    /\ now = 1
    /\ \E m, n \in messages : /\ m.is_read /\ m.read_at = Some(0)
                              /\ n.is_read /\ n.read_at = Some(1)
                              /\ m.receiver_id = n.receiver_id

============================================================================
